---- MODULE Spec2Model ----
(***************************************************************************)
(* Fountain (keylin/allin-one, src/fountain/src-tauri): the scheduler,     *)
(* the manual sync commands, the persisted per-platform sync state and     *)
(* the startup recovery, as a state machine.                               *)
(*                                                                         *)
(* Time is in whole seconds.  Option<T> is a sequence of length at most    *)
(* one: None is << >> and Some(x) is << x >>.                              *)
(*                                                                         *)
(* A run_<platform>_sync call begins with update_platform_status(Syncing), *)
(* waits for run_sync, and ends with the final update.  Each               *)
(* update_platform_* call is three steps, as nothing is held between them: *)
(* store.get (the caller's copy, with the change made), store.set and      *)
(* store.save, and app.emit of the caller's copy.  The store.get that     *)
(* loads the Apple Books manifest once Syncing is emitted is a step of its *)
(* own, and so is the return of run_sync with the save of the manifest.    *)
(* The                                                                     *)
(* if-statements of a tick (and of sync_now) that do not run their         *)
(* platform read nothing shared and are folded into the step that starts   *)
(* the next run.  Commands of the window are served once the setup closure *)
(* has returned.                                                           *)
(*                                                                         *)
(* Spec, SpecNoCrash and SpecSettings take the result of run_sync from the *)
(* outside world.  SpecSignal is the scheduler with settings updates that  *)
(* reach the shared settings while it runs; there the tick reads the lock  *)
(* in two steps.  SpecRun opens run_sync of Apple Books, WeChat Read,      *)
(* Kindle and the bookmark platforms for a run started by sync_platform:   *)
(* one step per call (the WeChat Read shelf request, Setup, Status, each   *)
(* Push), with the configuration test, the reads of the local databases    *)
(* and files and their failures, the manifest, the watermark and the       *)
(* batches.  SpecTick has the same runs started by the ticks of the        *)
(* scheduler, for one enabled platform.  In SpecRun, SpecTick, SpecSame    *)
(* and SpecMark one task alone touches the store, and each update call is  *)
(* taken whole.  SpecUpdate has the updates of two callers step by step.   *)
(* SpecPair has two Apple Books runs in flight at once.  SpecSame has run  *)
(* after run of Apple Books over a library that stays (SpecSameFair: runs  *)
(* keep being started and calls keep being accepted).  SpecMark has run    *)
(* after run of a timestamp-threshold source against a backend that keeps  *)
(* a watermark.                                                            *)
(***************************************************************************)
EXTENDS Integers, Sequences, FiniteSets, Bags, TLC

VARIABLES
    clock,          \* the current instant, in seconds (Instant::now / Utc::now)
    main,           \* the process: position in the setup closure of lib.rs
    store,          \* persisted "sync_state" document of settings.json
    settingsStore,  \* persisted "app_settings" document of settings.json
    schedSettings,  \* Arc<RwLock<AppSettings>> shared with the scheduler
    pending,        \* bag of the spawned "settings-changed" tasks that have not written the lock yet
    shutdown,       \* the oneshot shutdown channel and the exit request
    sched,          \* the task running Scheduler::run
    runs,           \* the run_*_sync calls in flight (between Syncing and the final write)
    cmds,           \* the sync_now / sync_platform commands in progress
    manifestStore,  \* persisted "apple_books_manifest" document of settings.json
    job,            \* the inside of one run: the locals of sync::<platform>::run_sync
    hist            \* history of the execution (not program state)

vars == << clock, main, store, settingsStore, schedSettings, pending,
           shutdown, sched, runs, cmds, manifestStore, job, hist >>

-----------------------------------------------------------------------------
(* Bounds of the model *)

MaxClock == 3600
TimeStep == 1800
MaxManual == 1

\* the runs started in a behaviour of the engine, by the scheduler and by
\* the commands together
MaxRuns == 2

\* the tasks spawned by the "settings-changed" listener that have not run yet
MaxPending == 2

\* the longest list of items a run of the step-by-step model fetches
MaxItems == 101

\* the longest list of items of which every permutation is tried
MaxPermuted == 3

-----------------------------------------------------------------------------
(* Option *)

None == << >>
Some(x) == << x >>

-----------------------------------------------------------------------------
(* commands/sync.rs: Platform, and the order in which the code walks it *)

Platform ==
    { "AppleBooks", "WechatRead", "Bilibili", "Kindle", "SafariBookmarks",
      "ChromeBookmarks", "Douban", "Zhihu", "GithubStars", "Twitter" }

\* sync_now: the if-chain over the enabled flags, in source order
SyncNowOrder ==
    << "AppleBooks", "WechatRead", "Bilibili", "Kindle", "SafariBookmarks",
       "ChromeBookmarks", "Douban", "Zhihu", "GithubStars", "Twitter" >>

\* Scheduler::run: the if-chain inside the tick branch, in source order
SchedOrder ==
    << "AppleBooks", "WechatRead", "Bilibili", "Kindle", "SafariBookmarks",
       "ChromeBookmarks" >>

Scheduled == { SchedOrder[i] : i \in 1..Len(SchedOrder) }

\* the *_interval_hours field the scheduler reads for a platform
IntervalKey(p) ==
    CASE p = "AppleBooks" -> "apple_books"
      [] p = "WechatRead" -> "wechat_read"
      [] p = "Bilibili" -> "bilibili"
      [] p = "Kindle" -> "kindle"
      [] p = "SafariBookmarks" -> "bookmarks"
      [] p = "ChromeBookmarks" -> "bookmarks"

IntervalKeys == { "apple_books", "wechat_read", "bilibili", "kindle", "bookmarks" }

SyncPlatformStatus == { "Idle", "Syncing", "Success", "Error", "NeedsAuth" }

-----------------------------------------------------------------------------
(* config.rs / commands/sync.rs: the persisted SyncState *)

\* the platforms struct SyncState of config.rs declares fields for
DeclaredPlatforms == { "AppleBooks", "WechatRead", "Bilibili" }

\* SyncState::default(): what it gives for each declared platform
DefaultRecord ==
    [ status |-> "Idle", last_sync |-> None, count |-> 0, error |-> None ]

\* commands/sync.rs reads and writes <platform>_status, _last_sync, _count
\* and _error of seven more platforms, which no file of src/ declares; Douban
\* has two counts there (douban_book_count, douban_movie_count).  Their
\* defaults are taken to be those of a SyncStateRecord that never synced.
DefaultCount(p) == IF p = "Douban" THEN << 0, 0 >> ELSE 0

UndeclaredDefault(p) == [ DefaultRecord EXCEPT !.count = DefaultCount(p) ]

DefaultSyncState ==
    [ p \in Platform |->
        IF p \in DeclaredPlatforms THEN DefaultRecord ELSE UndeclaredDefault(p) ]

\* app.emit("sync-status-changed", &state), the last statement of
\* update_platform_status, update_platform_success, update_platform_error and
\* of the inline update of run_douban_sync: what the listeners have after it
emit(state) == Some(state)

\* a plausible slip: the status is changed in the copy that was read and the
\* copy is never set in the store
update_platform_status_unsaved(state, p, status) == state

\* update_platform_status: only the status field of one platform changes
update_platform_status(state, p, status) ==
    [ state EXCEPT ![p].status = status ]

\* update_platform_success
update_platform_success(state, p, count, now) ==
    [ state EXCEPT ![p] =
        [ status |-> "Success", last_sync |-> Some(now),
          count |-> IF p = "Douban" THEN state[p].count ELSE count,
          error |-> None ] ]

\* the inline update of run_douban_sync (two counts)
douban_inline_success(state, book_count, movie_count, now) ==
    [ state EXCEPT !["Douban"] =
        [ status |-> "Success", last_sync |-> Some(now),
          count |-> << book_count, movie_count >>, error |-> None ] ]

\* update_platform_error
update_platform_error(state, p, error) ==
    [ state EXCEPT ![p].status = "Error", ![p].error = Some(error) ]

\* a plausible slip: the platforms added after the first three are forgotten
reset_stale_sync_state_first3(state) ==
    [ p \in Platform |->
        IF state[p].status = "Syncing"
              /\ p \in { "AppleBooks", "WechatRead", "Bilibili" }
        THEN [ state[p] EXCEPT !.status = "Idle" ]
        ELSE state[p] ]

\* reset_stale_sync_state: the document after the ten if-statements
reset_stale_sync_state(state) ==
    [ p \in Platform |->
        IF state[p].status = "Syncing"
        THEN [ state[p] EXCEPT !.status = "Idle" ]
        ELSE state[p] ]

-----------------------------------------------------------------------------
(* the error texts of the adapters and their classification *)

\* the error texts (anyhow's to_string: the outermost message) the model draws from
MsgNotConfigured == "Server URL not configured"
MsgWechatExpired == "WeChat Read auth expired (401)"
MsgDoubanExpired == "Douban auth expired (403 Forbidden)"
MsgWechatNoCredentials == "WeChat Read credentials not configured"
MsgWechatShelfError == "WeChat Read shelf error: 500 Internal Server Error"
MsgWechatBadCookie ==
    "Invalid WeChat Read cookie format (non-ASCII characters in credentials)"
MsgAppleNoDb ==
    "Apple Books database not found. Please verify iBooks/Books app is installed."
MsgAppleBadLibrary == "Failed to read Apple Books library"
MsgAppleBadAnnotations == "Failed to read Apple Books annotations"
MsgKindleNotFound ==
    "Kindle not found. Connect your Kindle device or set the clippings file path in Settings."
MsgKindleUnreadable == "Failed to read \"/Volumes/Kindle/documents/My Clippings.txt\""
MsgSafariNotFound ==
    "Safari Bookmarks.plist not found at \"/Users/me/Library/Safari/Bookmarks.plist\""

\* the texts of the model in which none of the tokens tested occurs
TextsWithoutToken ==
    { MsgNotConfigured, MsgWechatNoCredentials, MsgWechatShelfError,
      MsgWechatBadCookie, "ebook setup failed", "ebook sync failed" }

\* str::contains for the texts above and the tokens the run_*_sync functions test
Contains(msg, tok) ==
    CASE msg \in TextsWithoutToken -> FALSE
      [] msg = MsgWechatExpired ->
            tok \in { "401", "expired", "auth", "auth expired" }
      [] msg = MsgDoubanExpired ->
            tok \in { "403", "expired", "auth", "auth expired" }

\* needs_auth of each run_*_sync (AppleBooks, Kindle and the two bookmark
\* platforms have no such test: every failure is update_platform_error)
NeedsAuth(p, msg) ==
    CASE p = "WechatRead" ->
            Contains(msg, "401") \/ Contains(msg, "expired") \/ Contains(msg, "auth")
      [] p = "Bilibili" ->
            Contains(msg, "401") \/ Contains(msg, "expired") \/ Contains(msg, "not_login")
      [] p \in { "Douban", "Zhihu", "Twitter" } ->
            Contains(msg, "auth expired") \/ Contains(msg, "401") \/ Contains(msg, "403")
      [] p = "GithubStars" ->
            Contains(msg, "401") \/ Contains(msg, "invalid or expired")
      [] OTHER -> FALSE

\* what sync::<platform>::run_sync may return (the outside world decides):
\* Ok(count), for Douban Ok((book_count, movie_count)), or Err(e) with
\* msg = e.to_string()
OkCounts(p) == IF p = "Douban" THEN { 0 } ELSE { 2 }

DoubanCounts(p) == IF p = "Douban" THEN { 1 } ELSE { 0 }

ErrTexts(p) ==
    CASE p = "WechatRead" -> { MsgWechatExpired }
      [] p = "Douban" -> { MsgDoubanExpired }
      [] OTHER -> { MsgNotConfigured }

RunSyncResults(p) ==
    { [ ok |-> TRUE, count |-> c, book_count |-> b, movie_count |-> b, msg |-> "" ] :
        c \in OkCounts(p), b \in DoubanCounts(p) }
        \cup { [ ok |-> FALSE, count |-> 0, book_count |-> 0, movie_count |-> 0,
                 msg |-> m ] : m \in ErrTexts(p) }

\* format!: the text is kept as its pieces, << "Synced ", 2, " books" >>
SuccessMessage(p, res) ==
    CASE p = "AppleBooks" ->
            IF res.count > 0 THEN << "Synced ", res.count, " books" >>
            ELSE << "No changes detected" >>
      [] p = "WechatRead" -> << "Synced ", res.count, " books" >>
      [] p = "Kindle" ->
            IF res.count > 0 THEN << "Synced ", res.count, " books" >>
            ELSE << "No new highlights" >>
      [] p = "SafariBookmarks" ->
            IF res.count > 0 THEN << "Synced ", res.count, " bookmarks" >>
            ELSE << "No new bookmarks" >>
      [] p = "Douban" ->
            IF res.book_count + res.movie_count > 0
            THEN << "Synced ", res.book_count, " books, ", res.movie_count, " movies" >>
            ELSE << "No changes detected" >>

\* a plausible slip: the error arm reports a run that had nothing to do
SyncResultNeverFails(p, res) ==
    [ platform |-> p, success |-> TRUE,
      message |-> IF res.ok THEN SuccessMessage(p, res) ELSE << "No changes detected" >>,
      items_synced |-> IF p = "Douban" THEN res.book_count + res.movie_count
                       ELSE res.count ]

\* the SyncResult run_<platform>_sync returns after run_sync returned res
\* (Apple Books, WeChat Read, Kindle, Safari bookmarks, Douban)
SyncResult(p, res) ==
    IF res.ok
    THEN [ platform |-> p, success |-> TRUE, message |-> SuccessMessage(p, res),
           items_synced |-> IF p = "Douban" THEN res.book_count + res.movie_count
                            ELSE res.count ]
    ELSE [ platform |-> p, success |-> FALSE, message |-> << res.msg >>,
           items_synced |-> 0 ]

\* the final write of run_<platform>_sync, after run_sync returned res
FinalWrite(state, p, res, now) ==
    IF res.ok
    THEN IF p = "Douban"
         THEN douban_inline_success(state, res.book_count, res.movie_count, now)
         ELSE update_platform_success(state, p, res.count, now)
    ELSE IF NeedsAuth(p, res.msg)
         THEN update_platform_status(state, p, "NeedsAuth")
         ELSE update_platform_error(state, p, res.msg)

-----------------------------------------------------------------------------
(* sync/apple_books.rs, sync/browser_bookmarks.rs, sync/kindle.rs: the      *)
(* pure parts of run_sync                                                   *)

\* const BATCH_SIZE of apple_books.rs, browser_bookmarks.rs, kindle.rs and
\* wechat_read.rs
APPLE_BOOKS_BATCH_SIZE == 50

BOOKMARKS_BATCH_SIZE == 100

KINDLE_BATCH_SIZE == 50

WECHAT_READ_BATCH_SIZE == 20

\* the platforms whose run_sync is modelled step by step
RunPlatforms == { "AppleBooks", "SafariBookmarks", "Kindle", "WechatRead" }

BatchSize(p) ==
    CASE p = "AppleBooks" -> APPLE_BOOKS_BATCH_SIZE
      [] p = "Kindle" -> KINDLE_BATCH_SIZE
      [] p = "WechatRead" -> WECHAT_READ_BATCH_SIZE
      [] p \in { "SafariBookmarks", "ChromeBookmarks" } -> BOOKMARKS_BATCH_SIZE

\* a plausible slip: a full last chunk is followed by an empty one
NumChunksPlusOne(items, size) == Len(items) \div size + 1

\* slice::chunks(size): how many chunks there are, and the k-th of them
NumChunks(items, size) == (Len(items) + size - 1) \div size

\* a plausible slip: a chunk ends one item late, on the first of the next
ChunkOneMore(items, size, k) ==
    SubSeq(items, (k - 1) * size + 1,
           IF k * size + 1 < Len(items) THEN k * size + 1 ELSE Len(items))

Chunk(items, size, k) ==
    SubSeq(items, (k - 1) * size + 1,
           IF k * size < Len(items) THEN k * size ELSE Len(items))

\* reading_progress is an f64; the model holds it in units of 1/1024, which
\* f64 represents exactly, so that differences are exact as well
ProgressUnit == 1024

Abs(x) == IF x < 0 THEN 0 - x ELSE x

\* a plausible slip: any difference of the progress counts as a change
ProgressDiffersAtAll(a, b) == a # b

\* (entry.reading_progress - book.reading_progress).abs() > 0.005
ProgressDiffers(a, b) == Abs(a - b) * 1000 > 5 * ProgressUnit

\* struct BookManifestEntry
BookManifestEntry(count, progress) ==
    [ annotation_count |-> count, reading_progress |-> progress ]

\* HashMap::new(), HashMap::get, and the inserts made for one pushed chunk
\* (a later book of the chunk with the same asset_id overwrites an earlier one)
EmptyManifest == << >>

ManifestGet(manifest, key) ==
    IF key \in DOMAIN manifest THEN Some(manifest[key]) ELSE None

\* a plausible slip: an insert writes the annotation count only, the progress
\* stays what the manifest had (0 for a new key)
InsertedCountOnly(m, c) ==
    LET keys == { c[i].asset_id : i \in 1..Len(c) }
        at(k) == { i \in 1..Len(c) : c[i].asset_id = k }
        last(k) == CHOOSE i \in at(k) : \A j \in at(k) : j <= i
    IN  [ k \in DOMAIN m \cup keys |->
            IF k \in keys
            THEN BookManifestEntry(c[last(k)].annot_count,
                                   IF k \in DOMAIN m THEN m[k].reading_progress ELSE 0)
            ELSE m[k] ]

\* the manifest m after the inserts of the books of the sequence c
Inserted(m, c) ==
    LET keys == { c[i].asset_id : i \in 1..Len(c) }
        at(k) == { i \in 1..Len(c) : c[i].asset_id = k }
        last(k) == CHOOSE i \in at(k) : \A j \in at(k) : j <= i
    IN  [ k \in DOMAIN m \cup keys |->
            IF k \in keys
            THEN BookManifestEntry(c[last(k)].annot_count, c[last(k)].reading_progress)
            ELSE m[k] ]

\* (manifest and chunk are taken as values, once)
ManifestAfterChunk(manifest, chunk) ==
    CHOOSE after \in { Inserted(m, c) : m \in { manifest }, c \in { chunk } } : TRUE

\* a plausible slip: of a damaged document the entries that still parse are kept
load_apple_books_manifest_lenient(doc) == doc.entries

\* load_apple_books_manifest: a missing document, and one that does not
\* parse, is an empty manifest
load_apple_books_manifest(doc) ==
    IF doc.kind = "ok" THEN doc.entries ELSE EmptyManifest

\* save_apple_books_manifest
save_apple_books_manifest(manifest) == [ kind |-> "ok", entries |-> manifest ]

\* a plausible slip: only the books the manifest does not know are changed
BookChangedNewOnly(manifest, book) ==
    ManifestGet(manifest, book.asset_id) = None

\* the closure of the filter over books: a book is [asset_id, annot_count,
\* reading_progress], annot_count being the length of its annotation list
BookChanged(manifest, book) ==
    LET entry == ManifestGet(manifest, book.asset_id) IN
        IF entry = None
        THEN TRUE
        ELSE \/ entry[1].annotation_count # book.annot_count
             \/ ProgressDiffers(entry[1].reading_progress, book.reading_progress)

\* a plausible slip: take_while in place of filter (the books after the first
\* unchanged one are dropped)
changed_books_take_while(manifest, books) ==
    LET unchanged == { i \in 1..Len(books) : ~BookChanged(manifest, books[i]) } IN
        IF unchanged = {}
        THEN books
        ELSE SubSeq(books, 1, (CHOOSE i \in unchanged : \A n \in unchanged : i <= n) - 1)

changed_books(manifest, books) ==
    SelectSeq(books, LAMBDA book : BookChanged(manifest, book))

\* the text of an added_at: 0 stands for the empty string (what the
\* converters give for an instant they cannot format), t >= 1 for the
\* RFC 3339 text of the instant t.
\* chrono::DateTime::parse_from_rfc3339(s).ok().map(|dt| dt.timestamp())
parse_iso_to_timestamp(s) == IF s >= 1 THEN Some(s) ELSE None

\* Option::as_deref().and_then(parse_iso_to_timestamp)
ParsedTimestamp(text) ==
    IF text = None THEN None ELSE parse_iso_to_timestamp(text[1])

\* browser_bookmarks.rs: the closure of the filter; a bookmark is [url, added_at]
BookmarkIncluded(last_sync_ts, bm) ==
    IF last_sync_ts = None
    THEN TRUE
    ELSE LET ts == ParsedTimestamp(bm.added_at) IN
            IF ts = None THEN TRUE ELSE ts[1] > last_sync_ts[1]

to_push(last_sync_ts, bookmarks) ==
    SelectSeq(bookmarks, LAMBDA bm : BookmarkIncluded(last_sync_ts, bm))

\* kindle.rs: the closure of the filter over books_map; a book is
\* [title, clips], a clip is [added_at]
KindleBookIncluded(last_sync_ts, book) ==
    IF last_sync_ts = None
    THEN TRUE
    ELSE \E i \in 1..Len(book.clips) :
            LET ts == ParsedTimestamp(book.clips[i].added_at) IN
                IF ts = None THEN FALSE ELSE ts[1] > last_sync_ts[1]

books_to_sync(last_sync_ts, books) ==
    SelectSeq(books, LAMBDA book : KindleBookIncluded(last_sync_ts, book))

\* wechat_read.rs: a book of the shelf is [bookId, marks]: bookId is None
\* when the field is no string, marks are the createTime fields (None when
\* the field is no integer) of what /book/bookmarklist answers for the book.
\* books.iter().filter_map(|b| b["bookId"].as_str()...)
book_ids(books) ==
    LET withId == SelectSeq(books, LAMBDA b : b.bookId # None) IN
        [ i \in 1..Len(withId) |-> withId[i].bookId[1] ]

\* books.iter().find(|b| b["bookId"].as_str() == Some(book_id))
book_info(books, book_id) ==
    LET found == { i \in 1..Len(books) : books[i].bookId = Some(book_id) } IN
        IF found = {}
        THEN None
        ELSE Some(books[CHOOSE i \in found : \A n \in found : i <= n])

\* the filter of fetch_annotations
AnnotationIncluded(since_ts, createTime) ==
    IF since_ts # None
    THEN IF createTime = None THEN TRUE ELSE createTime[1] > since_ts[1]
    ELSE TRUE

fetch_annotations(marks, since_ts) ==
    SelectSeq(marks, LAMBDA t : AnnotationIncluded(since_ts, t))

\* the ebooks of one chunk of book_ids (a book_id that is not found is skipped)
WechatEbooks(books, chunk, last_sync_ts) ==
    LET found == SelectSeq(chunk, LAMBDA id : book_info(books, id) # None) IN
        [ i \in 1..Len(found) |->
            [ external_id |-> found[i],
              annotations |->
                  fetch_annotations(book_info(books, found[i])[1].marks, last_sync_ts) ] ]

\* the filtered subset of a timestamp-threshold platform (WeChat Read pushes
\* every book of the shelf and filters the annotations of each)
Filtered(p, last_sync_ts, items) ==
    CASE p = "Kindle" -> books_to_sync(last_sync_ts, items)
      [] p = "WechatRead" -> book_ids(items)
      [] OTHER -> to_push(last_sync_ts, items)

\* what the payload of the Push of a chunk carries
Payload(p, items, chunk, last_sync_ts) ==
    IF p = "WechatRead" THEN WechatEbooks(items, chunk, last_sync_ts) ELSE chunk

-----------------------------------------------------------------------------
(* config.rs: AppSettings, as far as the engine reads it *)

\* server_url; enabled: the platforms whose *_enabled flag is set
SettingsA ==
    [ server_url |-> "http://localhost:8000",
      enabled |-> { "AppleBooks", "Douban" },
      interval_hours |-> [ k \in IntervalKeys |-> 1 ] ]

SettingsB ==
    [ server_url |-> "http://localhost:8000",
      enabled |-> { "AppleBooks", "WechatRead" },
      interval_hours |-> [ k \in IntervalKeys |-> IF k = "wechat_read" THEN 0 ELSE 1 ] ]

SettingsChoices == { SettingsA, SettingsB }

\* the platforms a sync_platform command of the model names
ManualPlatforms == { "AppleBooks", "WechatRead" }

-----------------------------------------------------------------------------
(* scheduler.rs *)

TICK_SECS == 300

\* Instant::duration_since saturates at zero
DurationSince(now, earlier) == IF now >= earlier THEN now - earlier ELSE 0

\* a plausible slip: the interval is not compared
DueAlways(last, now, secs) == TRUE

\* let due = last.map(|last| now.duration_since(last).as_secs() >= secs).unwrap_or(true)
Due(last, now, secs) ==
    IF last = None THEN TRUE ELSE DurationSince(now, last[1]) >= secs

IntervalSecs(settings, p) == settings.interval_hours[IntervalKey(p)] * 3600

\* a plausible slip: every if-statement reads the shared settings again
IfSettingsReread(snapshot, lock) == lock

\* `settings` in the if-statements of the tick branch: the local clone the
\* tick made at its start, not the shared value
IfSettings(snapshot, lock) == snapshot

\* the i-th if-statement of the tick branch runs its platform
SchedRuns(s, i) ==
    LET p == SchedOrder[i]
        settings == IfSettings(s.settings, schedSettings)
    IN  /\ p \in settings.enabled
        /\ Due(s.last_run[p], s.now, IntervalSecs(settings, p))

\* the first if-statement from i on that runs its platform, 0 when none does
NextDueIdx(s, i) ==
    LET js == { j \in i..Len(SchedOrder) : SchedRuns(s, j) } IN
        IF js = {} THEN 0 ELSE CHOOSE j \in js : \A k \in js : j <= k

\* a plausible slip: select! without `biased` may take the tick first
SelectBranchTickFirst(shutdownReady, tickReady) ==
    IF tickReady THEN "tick"
    ELSE IF shutdownReady THEN "shutdown"
    ELSE "pending"

\* tokio::select! { biased; shutdown ; tick }
SelectBranch(shutdownReady, tickReady) ==
    IF shutdownReady THEN "shutdown"
    ELSE IF tickReady THEN "tick"
    ELSE "pending"

\* tokio interval with MissedTickBehavior::Skip: the deadline after a tick
\* that was due at d and fired at now
NextDeadline(d, now) ==
    IF now > d
    THEN now + TICK_SECS - ((now - d) % TICK_SECS)
    ELSE d + TICK_SECS

\* a plausible slip: last_run seeded from the persisted last_sync
InitialLastRunPersisted == [ p \in Scheduled |-> store[p].last_sync ]

\* let mut <platform>_last: Option<Instant> = None
InitialLastRun == [ p \in Scheduled |-> None ]

\* what run_sync returned: Ok(count) or Err(e) with msg = e.to_string()
NoResult ==
    [ ok |-> FALSE, count |-> 0, book_count |-> 0, movie_count |-> 0, msg |-> "" ]

\* the locals of the run_<platform>_sync a task is inside.  pc: none (the
\* task is in no run), set (an update_platform_* call has read the document:
\* state is its local copy with the change made, store.set comes next), emit
\* (the copy is set and saved, app.emit comes next), load (Syncing is emitted,
\* the store.get of load_apple_books_manifest comes next), run (inside
\* run_sync), read (run_sync has returned, the store.get of the final update comes next).
\* at: start for the update that writes Syncing, end for the final update.
\* res: what run_sync returned.  manifest: the manifest run_apple_books_sync
\* loaded.
UpdNone ==
    [ pc |-> "none", at |-> "", state |-> DefaultSyncState, res |-> NoResult,
      manifest |-> << >> ]

\* the scheduler task before it is spawned.  pc: none, select (waiting in
\* select!), between (inside the tick branch, at if-statement idx), await
\* (inside the run of SchedOrder[idx]), stopped.  settings, now: the locals
\* of the tick branch.  ticks (ticks taken, counted up to 2), ran (platforms
\* run in this tick) and cancelledWithTick are history.
SchedNone ==
    [ pc |-> "none", idx |-> 0, settings |-> SettingsA, now |-> 0,
      last_run |-> [ p \in Scheduled |-> None ], nextTick |-> 0,
      ticks |-> 0, ran |-> {}, cancelledWithTick |-> FALSE, upd |-> UpdNone ]

\* a plausible slip: the run is spawned and the loop goes on to the next platform
AfterStartNoAwait(s, j) == [ s EXCEPT !.pc = "between", !.idx = j + 1 ]

\* run_<platform>_sync(...).await: the loop waits for the run it started
AfterStart(s, j) == [ s EXCEPT !.pc = "await", !.idx = j ]

-----------------------------------------------------------------------------
(* lib.rs: the setup closure *)

\* a plausible slip: the scheduler is started before the stale statuses are reset
SetupOrderSchedulerFirst == << "scheduler", "reset", "tray" >>

\* reset_stale_sync_state; setup_tray; start_scheduler
SetupOrder == << "reset", "tray", "scheduler" >>

\* pc: down, setup (about to execute SetupOrder[step]), up; resetChanged:
\* the platforms the reset of this startup changed (kept until setup returns)
MainDown == [ pc |-> "down", step |-> 0, resetChanged |-> {} ]

ShutdownInit == [ sent |-> FALSE, exit |-> FALSE ]

CmdIdle ==
    [ kind |-> "idle", settings |-> SettingsA, idx |-> 0, pc |-> "idle",
      upd |-> UpdNone ]

\* the "apple_books_manifest" key of settings.json: missing until the first
\* successful run saves it
ManifestMissing == [ kind |-> "missing", entries |-> << >> ]

\* no SyncResult has been returned
NoOutcome(p) ==
    [ platform |-> p, success |-> FALSE, message |-> << >>, items_synced |-> 0 ]

\* the locals of run_<platform>_sync and run_sync while no run is inside.
\* owner: 0 for a run of the scheduler, k for the command in slot k.
\* server_url: that of the settings the run was given; credentials: whether
\* the keychain holds the cookies of the source (WeChat Read: wr_skey, wr_vid).
\* doc: the kind of manifest document the run found (history).
\* outcome: the SyncResult the last run returned to its caller (history).
\* source_id: the local source_id, bound to what Setup returned.
\* pc: idle, fetch, setup, status, push (waiting for the answer of that call),
\* returned (run_sync has returned result).  items: what the adapter read;
\* manifest: the loaded manifest; last_sync_ts: the parsed watermark;
\* subset: changed_books / to_push / books_to_sync; k: the chunk being
\* pushed.  pushes (the Push calls of this run with their payloads and
\* answers, in order), http (the HTTP status that made the run fail), local
\* (the error text of the local read that made the run fail), status_http
\* (the HTTP status of the answer to the Status call) and log
\* (what the run did, in the order of the code: syncing, fetch, setup,
\* status, push, manifest, final) are history.  After the run (pc idle
\* again) the record keeps what the last run left, as history.
JobNone(p) ==
    [ pc |-> "idle", platform |-> p, owner |-> 0,
      server_url |-> "", credentials |-> FALSE, doc |-> "", items |-> << >>,
      manifest |-> << >>, last_sync_ts |-> None, subset |-> << >>, k |-> 0,
      total_synced |-> 0, updated_manifest |-> << >>, pushes |-> << >>,
      http |-> "", status_http |-> "", local |-> "", log |-> << >>,
      result |-> NoResult, outcome |-> NoOutcome(p), source_id |-> None ]

\* stale: platforms whose persisted Syncing was written by an earlier process;
\* everStart: the instant of the latest scheduler-started run of a platform,
\* in this or an earlier process; atCancel: the platforms whose
\* scheduler-started run was in flight when the shutdown signal was sent;
\* event: the payload of the last sync-status-changed event this process
\* emitted; wrote: the record of a platform as the last completed update of
\* that platform wrote it (kept by SpecUpdate); acked: the fingerprints of
\* the books carried by a Push the backend accepted (kept by SpecPair);
\* watermark: what the backend answers to Status for the source; unpushed: the
\* items of the filtered subset of the last run that filtered which no
\* accepted Push of it carried (both kept by SpecMark); again: the run in
\* flight, or the last run, was started right after a run that ended in Ok
\* and read the books that run had read (kept by SpecSame); saved: the
\* settings of the last save_settings of this process that emitted its event;
\* savedDuring: the platforms whose scheduler-started run was in flight at
\* that save_settings; appliedDuring: the platforms whose scheduler-started
\* run was in flight when a task of the listener last wrote the shared
\* settings in this process; started: the runs started so far (counted up to
\* MaxRuns)
HistInit ==
    [ stale |-> {},
      everStart |-> [ p \in Scheduled |-> None ],
      atCancel |-> {},
      event |-> None,
      wrote |-> [ p \in Platform |-> None ],
      acked |-> {},
      watermark |-> None,
      unpushed |-> {},
      again |-> FALSE,
      saved |-> None,
      savedDuring |-> {},
      appliedDuring |-> {},
      started |-> 0 ]

-----------------------------------------------------------------------------
(* Init: nothing runs; a fresh sync_state; settings saved by an earlier use *)

Init ==
    /\ clock = 0
    /\ main = MainDown
    /\ store = DefaultSyncState
    /\ settingsStore \in SettingsChoices
    /\ schedSettings = settingsStore
    /\ pending = EmptyBag
    /\ shutdown = ShutdownInit
    /\ sched = SchedNone
    /\ runs = {}
    /\ cmds = [ k \in 1..MaxManual |-> CmdIdle ]
    /\ manifestStore = ManifestMissing
    /\ job = JobNone("AppleBooks")
    /\ hist = HistInit

-----------------------------------------------------------------------------
(* the process *)

Up == main.pc = "up"

\* the process is started: run() reaches the setup closure
Launch ==
    /\ main.pc = "down"
    /\ main' = [ pc |-> "setup", step |-> 1, resetChanged |-> {} ]
    /\ UNCHANGED << job, manifestStore, clock, store, settingsStore, schedSettings, pending,
                    shutdown, sched, runs, cmds, hist >>

AfterSetupStep ==
    IF main.step = Len(SetupOrder)
    THEN [ main EXCEPT !.pc = "up", !.step = 0, !.resetChanged = {} ]
    ELSE [ main EXCEPT !.step = main.step + 1 ]

\* commands::sync::reset_stale_sync_state(app.handle())
SetupReset ==
    /\ main.pc = "setup"
    /\ SetupOrder[main.step] = "reset"
    /\ store' = reset_stale_sync_state(store)
    /\ main' = IF main.step = Len(SetupOrder)
               THEN AfterSetupStep
               ELSE [ AfterSetupStep EXCEPT
                        !.resetChanged = { p \in Platform : store'[p] # store[p] } ]
    /\ hist' = [ hist EXCEPT
                   !.stale = { p \in hist.stale : store'[p].status = "Syncing" } ]
    /\ UNCHANGED << job, manifestStore, clock, settingsStore, schedSettings, pending, shutdown,
                    sched, runs, cmds >>

\* setup_tray(app)
SetupTray ==
    /\ main.pc = "setup"
    /\ SetupOrder[main.step] = "tray"
    /\ main' = AfterSetupStep
    /\ UNCHANGED << job, manifestStore, clock, store, settingsStore, schedSettings, pending,
                    shutdown, sched, runs, cmds, hist >>

\* start_scheduler(app, shutdown_rx): the lock is filled from the store and
\* the task running Scheduler::run is spawned
SetupScheduler ==
    /\ main.pc = "setup"
    /\ SetupOrder[main.step] = "scheduler"
    /\ main' = AfterSetupStep
    /\ schedSettings' = settingsStore
    /\ sched' = [ SchedNone EXCEPT !.pc = "select", !.nextTick = clock,
                                   !.last_run = InitialLastRun ]
    /\ UNCHANGED << job, manifestStore, clock, store, settingsStore, pending, shutdown, runs,
                    cmds, hist >>

\* the process ends: everything in memory is lost, the store stays
ProcessGone ==
    /\ main' = MainDown
    /\ schedSettings' = settingsStore
    /\ pending' = EmptyBag
    /\ shutdown' = ShutdownInit
    /\ sched' = SchedNone
    /\ runs' = {}
    /\ cmds' = [ k \in 1..MaxManual |-> CmdIdle ]
    /\ hist' = [ hist EXCEPT
                   !.stale = { p \in Platform : store[p].status = "Syncing" },
                   !.atCancel = {},
                   !.event = None,
                   !.saved = None,
                   !.savedDuring = {},
                   !.appliedDuring = {} ]
    /\ UNCHANGED << job, manifestStore, clock, store, settingsStore >>

Crash ==
    /\ main.pc # "down"
    /\ ProcessGone

\* tray menu "quit": the shutdown signal is sent, then app.exit(0)
Quit ==
    /\ Up
    /\ ~shutdown.exit
    /\ shutdown' = [ sent |-> TRUE, exit |-> TRUE ]
    /\ hist' = [ hist EXCEPT
                   !.atCancel = { r.platform : r \in { x \in runs : x.owner = 0 } } ]
    /\ UNCHANGED << job, manifestStore, clock, main, store, settingsStore,
                    schedSettings, pending, sched, runs, cmds >>

\* the exit requested by app.exit(0) takes effect
Exit ==
    /\ Up
    /\ shutdown.exit
    /\ ProcessGone

TimePasses ==
    /\ clock + TimeStep <= MaxClock
    /\ clock' = clock + TimeStep
    /\ UNCHANGED << job, manifestStore, main, store, settingsStore,
                    schedSettings, pending, shutdown, sched, runs, cmds, hist >>

-----------------------------------------------------------------------------
(* settings *)

\* serde_json::to_string(&settings): the JSON text of an object with the
\* fields of AppSettings
to_string(settings) == [ json |-> "object", of |-> settings ]

\* Emitter::emit(event, payload) serialises the payload it is given: a String
\* becomes the JSON text of a string, whatever text the string holds
EmitPayload(payload) == [ json |-> "string", of |-> payload ]

\* serde_json::from_str::<AppSettings>(event.payload()): Ok for the JSON text
\* of an object with the fields of AppSettings, Err for the text of a string
from_str(text) == IF text.json = "object" THEN Some(text.of) ELSE None

\* the "settings-changed" listener of start_scheduler, called with the event:
\* the settings whose task it spawns, if any
Listened(payload) ==
    LET new_settings == from_str(payload)
    IN  IF new_settings # None THEN { new_settings[1] } ELSE {}

\* save_settings: the store is written; the event is emitted only when the
\* keychain and autostart calls before it succeeded, and the listener is
\* called with it
SaveSettings(s, emitted) ==
    /\ Up
    /\ settingsStore' = s
    /\ pending' = IF emitted
                  THEN pending (+) SetToBag(Listened(EmitPayload(to_string(s))))
                  ELSE pending
    \* at most MaxPending tasks wait for the lock
    /\ BagCardinality(pending') <= MaxPending
    /\ hist' = [ hist EXCEPT
                   !.saved = IF emitted THEN Some(s) ELSE hist.saved,
                   !.savedDuring = IF emitted
                                   THEN { r.platform : r \in { x \in runs : x.owner = 0 } }
                                   ELSE hist.savedDuring ]
    /\ UNCHANGED << job, manifestStore, clock, main, store, schedSettings, shutdown, sched, runs,
                    cmds >>

\* the shell sends the settings-update signal: a "settings-changed" event
\* whose payload is the settings themselves, and the listener is called with
\* it
ShellSignal(s) ==
    /\ Up
    /\ pending' = pending (+) SetToBag(Listened(to_string(s)))
    \* at most MaxPending tasks wait for the lock
    /\ BagCardinality(pending') <= MaxPending
    /\ UNCHANGED << job, manifestStore, clock, main, store, settingsStore, schedSettings,
                    shutdown, sched, runs, cmds, hist >>

\* self.settings.read().await.clone(): the guard is a temporary of the
\* statement: held while the value is cloned (pc guard), dropped before the
\* first if-statement of the tick
ReadGuardHeld(s) == s.pc = "guard"

\* one task spawned by the "settings-changed" listener writes the lock, which
\* it gets when no read guard is held; the other tasks, those of equal
\* settings among them, are still to run
ApplySettings(s) ==
    /\ BagIn(s, pending)
    /\ ~ReadGuardHeld(sched)
    /\ schedSettings' = s
    /\ pending' = pending (-) SetToBag({ s })
    /\ hist' = [ hist EXCEPT
                   !.appliedDuring = { r.platform : r \in { x \in runs : x.owner = 0 } } ]
    /\ UNCHANGED << job, manifestStore, clock, main, store, settingsStore, shutdown, sched, runs,
                    cmds >>

-----------------------------------------------------------------------------
(* Scheduler::run *)

TickReady == clock >= sched.nextTick

\* the shutdown branch of select!
SchedShutdown ==
    /\ sched.pc = "select"
    /\ SelectBranch(shutdown.sent, TickReady) = "shutdown"
    /\ sched' = [ sched EXCEPT !.pc = "stopped", !.cancelledWithTick = TickReady ]
    /\ UNCHANGED << job, manifestStore, clock, main, store, settingsStore, schedSettings, pending,
                    shutdown, runs, cmds, hist >>

\* let settings = self.settings.read().await.clone()
TickSnapshot(lock, persisted) == lock

\* the tick branch of select!: settings snapshot and now
SchedTick ==
    /\ sched.pc = "select"
    /\ SelectBranch(shutdown.sent, TickReady) = "tick"
    /\ sched' = [ sched EXCEPT
                    !.pc = "between", !.idx = 1,
                    !.settings = TickSnapshot(schedSettings, settingsStore),
                    !.now = clock,
                    !.nextTick = NextDeadline(sched.nextTick, clock),
                    !.ticks = IF sched.ticks < 2 THEN sched.ticks + 1 ELSE 2,
                    !.ran = {} ]
    /\ UNCHANGED << job, manifestStore, clock, main, store, settingsStore, schedSettings, pending,
                    shutdown, runs, cmds, hist >>

\* the tick branch of select! up to self.settings.read().await: tick.tick()
\* completes, which sets the deadline of the next tick from the time of the
\* firing, and the scheduler holds a read guard of the shared settings
TickReads ==
    /\ sched.pc = "select"
    /\ SelectBranch(shutdown.sent, TickReady) = "tick"
    /\ sched' = [ sched EXCEPT
                    !.pc = "guard",
                    !.nextTick = NextDeadline(sched.nextTick, clock) ]
    /\ UNCHANGED << job, manifestStore, clock, main, store, settingsStore, schedSettings, pending,
                    shutdown, runs, cmds, hist >>

\* .clone() and the end of the statement: the snapshot is taken and the guard
\* is dropped; now
TickClones ==
    /\ sched.pc = "guard"
    /\ sched' = [ sched EXCEPT
                    !.pc = "between", !.idx = 1,
                    !.settings = TickSnapshot(schedSettings, settingsStore),
                    !.now = clock,
                    !.ticks = IF sched.ticks < 2 THEN sched.ticks + 1 ELSE 2,
                    !.ran = {} ]
    /\ UNCHANGED << job, manifestStore, clock, main, store, settingsStore, schedSettings, pending,
                    shutdown, runs, cmds, hist >>

\* the if-statements of the tick branch from sched.idx on: the first one that
\* is enabled and due starts its run (status Syncing is written); when none
\* is, the loop is back at select!  entered(p) is the inside of the run of p
\* at its first await.
SchedStepTo(entered(_)) ==
    /\ sched.pc = "between"
    /\ LET j == NextDueIdx(sched, sched.idx) IN
         IF j = 0
         THEN /\ sched' = [ sched EXCEPT !.pc = "select", !.idx = 0,
                                          !.settings = SchedNone.settings,
                                          !.now = 0, !.ran = {} ]
              /\ UNCHANGED << store, runs, hist, job >>
         ELSE LET p == SchedOrder[j] IN
              /\ store' = update_platform_status(store, p, "Syncing")
              /\ runs' = runs \cup { [ owner |-> 0, platform |-> p ] }
              /\ sched' = [ AfterStart(sched, j) EXCEPT
                              !.ran = sched.ran \cup { p } ]
              /\ hist' = [ hist EXCEPT !.stale = hist.stale \ { p },
                                       !.everStart[p] = Some(clock),
                                       !.event = emit(store') ]
              /\ job' = entered(p)
    /\ UNCHANGED << manifestStore, clock, main, settingsStore, schedSettings, pending,
                    shutdown, cmds >>

\* the same steps in SpecTick, where the scheduler is the only task that
\* touches the store and each update_platform_* call is taken whole
\* (SchedStepTo above)

-----------------------------------------------------------------------------
(* run_<platform>_sync as the scheduler, sync_now and sync_platform call it: *)
(* update_platform_status(Syncing), run_sync, the final update.  The tasks   *)
(* run on the threads of the async runtime and nothing is held between the   *)
(* store.get, the store.set and the app.emit of an update, so each of the    *)
(* three is a step.                                                          *)

\* the update record of the task that called the run: 0 is the scheduler, k
\* the command in slot k
UpdOf(owner) == IF owner = 0 THEN sched.upd ELSE cmds[owner].upd

\* update_platform_status(app, p, Syncing) up to its store.get: the copy of
\* the document with the status of p changed
StartRead(state, p) ==
    [ UpdNone EXCEPT !.pc = "set", !.at = "start",
                     !.state = update_platform_status(state, p, "Syncing") ]

\* the if-statements of the tick branch from sched.idx on: the first one that
\* is enabled and due calls its run, which reads the document; when none is,
\* the loop is back at select!
SchedStep ==
    /\ sched.pc = "between"
    /\ LET j == NextDueIdx(sched, sched.idx) IN
         IF j = 0
         THEN /\ sched' = [ sched EXCEPT !.pc = "select", !.idx = 0,
                                          !.settings = SchedNone.settings,
                                          !.now = 0, !.ran = {} ]
              /\ UNCHANGED << runs, hist >>
         ELSE LET p == SchedOrder[j] IN
              /\ runs' = runs \cup { [ owner |-> 0, platform |-> p ] }
              /\ sched' = [ AfterStart(sched, j) EXCEPT
                              !.ran = sched.ran \cup { p },
                              !.upd = StartRead(store, p) ]
              /\ hist.started < MaxRuns
              /\ hist' = [ hist EXCEPT !.everStart[p] = Some(clock),
                                       !.started = hist.started + 1 ]
    /\ UNCHANGED << job, store, manifestStore, clock, main, settingsStore, schedSettings,
                    pending, shutdown, cmds >>

-----------------------------------------------------------------------------
(* sync_platform and sync_now *)

FreeSlot(k) ==
    /\ cmds[k].kind = "idle"
    /\ \A j \in 1..MaxManual : j < k => cmds[j].kind # "idle"

\* sync_platform(platform): load_settings, then run_<platform>_sync, which
\* reads the document
SyncPlatform(k, p) ==
    /\ Up
    /\ FreeSlot(k)
    /\ cmds' = [ cmds EXCEPT ![k] =
                   [ CmdIdle EXCEPT !.kind = "sync_platform", !.pc = "await",
                                    !.upd = StartRead(store, p) ] ]
    /\ runs' = runs \cup { [ owner |-> k, platform |-> p ] }
    /\ hist.started < MaxRuns
    /\ hist' = [ hist EXCEPT !.started = hist.started + 1 ]
    /\ UNCHANGED << job, store, manifestStore, clock, main, settingsStore, schedSettings,
                    pending, shutdown, sched >>

\* sync_now: load_settings
SyncNow(k) ==
    /\ Up
    /\ FreeSlot(k)
    /\ cmds' = [ cmds EXCEPT ![k] =
                   [ CmdIdle EXCEPT !.kind = "sync_now", !.settings = settingsStore,
                                    !.idx = 1, !.pc = "between" ] ]
    /\ UNCHANGED << job, manifestStore, clock, main, store, settingsStore, schedSettings, pending,
                    shutdown, sched, runs, hist >>

\* the first enabled platform of sync_now's if-chain from i on, 0 when none
NextEnabledIdx(settings, i) ==
    LET js == { j \in i..Len(SyncNowOrder) : SyncNowOrder[j] \in settings.enabled } IN
        IF js = {} THEN 0 ELSE CHOOSE j \in js : \A k \in js : j <= k

\* sync_now: the if-statements from cmds[k].idx on: the first enabled one
\* calls its run, which reads the document; Ok(results) when none is left
SyncNowStep(k) ==
    /\ cmds[k].kind = "sync_now"
    /\ cmds[k].pc = "between"
    /\ LET j == NextEnabledIdx(cmds[k].settings, cmds[k].idx) IN
         IF j = 0
         THEN /\ cmds' = [ cmds EXCEPT ![k] = CmdIdle ]
              /\ UNCHANGED << runs, hist >>
         ELSE LET p == SyncNowOrder[j] IN
              /\ hist.started < MaxRuns
              /\ hist' = [ hist EXCEPT !.started = hist.started + 1 ]
              /\ runs' = runs \cup { [ owner |-> k, platform |-> p ] }
              /\ cmds' = [ cmds EXCEPT ![k].pc = "await", ![k].idx = j,
                                       ![k].upd = StartRead(store, p) ]
    /\ UNCHANGED << job, store, manifestStore, clock, main, settingsStore, schedSettings,
                    pending, shutdown, sched >>

-----------------------------------------------------------------------------
(* the steps of a run in flight *)

\* the task that called run r with u as its update record
WithUpd(r, u) ==
    IF r.owner = 0
    THEN sched' = [ sched EXCEPT !.upd = u ] /\ UNCHANGED cmds
    ELSE cmds' = [ cmds EXCEPT ![r.owner].upd = u ] /\ UNCHANGED sched

\* store.set(SYNC_STATE_KEY, val); store.save() of the update run r is in:
\* the document is the copy of the update
UpdateSets(r) ==
    /\ r \in runs
    /\ UpdOf(r.owner).pc = "set"
    /\ store' = UpdOf(r.owner).state
    /\ WithUpd(r, [ UpdOf(r.owner) EXCEPT !.pc = "emit" ])
    /\ hist' = [ hist EXCEPT !.stale = hist.stale \ { r.platform } ]
    /\ UNCHANGED << job, manifestStore, clock, main, settingsStore, schedSettings, pending,
                    shutdown, runs >>

\* the caller of run r after run_<platform>_sync has returned: the scheduler
\* sets <platform>_last and goes to its next if-statement, sync_now goes to
\* its next if-statement, sync_platform returns
Resumed(r) ==
    IF r.owner = 0
    THEN /\ sched' = [ sched EXCEPT
                         !.last_run[r.platform] = Some(clock),
                         !.pc = IF sched.pc = "await" /\ SchedOrder[sched.idx] = r.platform
                                THEN "between" ELSE sched.pc,
                         !.idx = IF sched.pc = "await" /\ SchedOrder[sched.idx] = r.platform
                                 THEN sched.idx + 1 ELSE sched.idx,
                         !.upd = UpdNone ]
         /\ UNCHANGED cmds
    ELSE /\ cmds' = [ cmds EXCEPT ![r.owner] =
                        IF cmds[r.owner].kind = "sync_now"
                        THEN [ cmds[r.owner] EXCEPT !.pc = "between",
                                                    !.idx = cmds[r.owner].idx + 1,
                                                    !.upd = UpdNone ]
                        ELSE CmdIdle ]
         /\ UNCHANGED sched

\* app.emit("sync-status-changed", &state) of the update run r is in: the
\* event carries the copy of the update.  After the first update
\* run_apple_books_sync goes on to load its manifest, and the run of any
\* other platform enters run_sync, which touches neither store nor events;
\* after the final update the run returns to its caller.
UpdateEmits(r) ==
    /\ r \in runs
    /\ UpdOf(r.owner).pc = "emit"
    /\ hist' = [ hist EXCEPT !.event = emit(UpdOf(r.owner).state) ]
    /\ IF UpdOf(r.owner).at = "start"
       THEN /\ WithUpd(r, [ UpdNone EXCEPT
                              !.pc = IF r.platform = "AppleBooks" THEN "load" ELSE "run" ])
            /\ UNCHANGED runs
       ELSE /\ Resumed(r)
            /\ runs' = runs \ { r }
    /\ UNCHANGED << job, store, manifestStore, clock, main, settingsStore, schedSettings,
                    pending, shutdown >>

\* load_apple_books_manifest(app) of run r: the store.get of the manifest
\* document, whatever has been saved there since Syncing was emitted; run_sync
\* is entered with the manifest
ManifestLoads(r) ==
    /\ r \in runs
    /\ UpdOf(r.owner).pc = "load"
    /\ WithUpd(r, [ UpdNone EXCEPT
                      !.pc = "run",
                      !.manifest = load_apple_books_manifest(manifestStore) ])
    /\ UNCHANGED << job, store, manifestStore, clock, main, settingsStore, schedSettings,
                    pending, shutdown, runs, hist >>

\* what run_sync of Apple Books hands back with Ok(count): the manifest it
\* was given with the entries of the count books it pushed.  The library of
\* these specifications holds the books 1..count, which are read on between
\* any two runs.
ReturnedManifest(manifest, count) ==
    LET progress == IF 1 \in DOMAIN manifest /\ manifest[1].reading_progress = 0
                    THEN 11 ELSE 0
    IN  Inserted(manifest,
                 [ i \in 1..count |->
                     [ asset_id |-> i, annot_count |-> 0, reading_progress |-> progress ] ])

\* run_sync of run r returns res: run_apple_books_sync saves the manifest it
\* got back (Ok only); the final update comes next
RunFinish(r, res) ==
    /\ r \in runs
    /\ UpdOf(r.owner).pc = "run"
    /\ res \in RunSyncResults(r.platform)
    /\ manifestStore' =
          IF res.ok /\ r.platform = "AppleBooks"
          THEN save_apple_books_manifest(
                   ReturnedManifest(UpdOf(r.owner).manifest, res.count))
          ELSE manifestStore
    /\ WithUpd(r, [ UpdNone EXCEPT !.pc = "read", !.at = "end", !.res = res ])
    /\ UNCHANGED << job, store, clock, main, settingsStore, schedSettings, pending,
                    shutdown, runs, hist >>

\* store.get(SYNC_STATE_KEY) of the final update of run r
\* (update_platform_success, update_platform_error, update_platform_status
\* with NeedsAuth, or the inline update of run_douban_sync): the copy of the
\* document with the final record of the platform
UpdateReads(r) ==
    /\ r \in runs
    /\ UpdOf(r.owner).pc = "read"
    /\ WithUpd(r, [ UpdOf(r.owner) EXCEPT
                      !.pc = "set",
                      !.state = FinalWrite(store, r.platform, UpdOf(r.owner).res, clock) ])
    /\ UNCHANGED << job, store, manifestStore, clock, main, settingsStore, schedSettings,
                    pending, shutdown, runs, hist >>

-----------------------------------------------------------------------------

\* the commands and results the model draws
InvokeSyncPlatform == \E k \in 1..MaxManual, p \in ManualPlatforms : SyncPlatform(k, p)

InvokeSyncNow == \E k \in 1..MaxManual : SyncNow(k)

SyncNowNext == \E k \in 1..MaxManual : SyncNowStep(k)

UpdateRead == \E r \in runs : UpdateReads(r)

UpdateSet == \E r \in runs : UpdateSets(r)

UpdateEmit == \E r \in runs : UpdateEmits(r)

ManifestLoad == \E r \in runs : ManifestLoads(r)

RunEnds == \E r \in runs : \E res \in RunSyncResults(r.platform) : RunFinish(r, res)

InvokeSaveSettings == \E s \in SettingsChoices, e \in BOOLEAN : SaveSettings(s, e)

SettingsTaskRuns == \E s \in BagToSet(pending) : ApplySettings(s)

ShellSignals == \E s \in SettingsChoices : ShellSignal(s)

\* the engine with settings that stay as they were saved
Next ==
    \/ Launch
    \/ SetupReset
    \/ SetupTray
    \/ SetupScheduler
    \/ Crash
    \/ Quit
    \/ Exit
    \/ TimePasses
    \/ SchedShutdown
    \/ SchedTick
    \/ SchedStep
    \/ InvokeSyncPlatform
    \/ InvokeSyncNow
    \/ SyncNowNext
    \/ UpdateRead
    \/ UpdateSet
    \/ UpdateEmit
    \/ ManifestLoad
    \/ RunEnds

Spec == Init /\ [][Next]_vars

\* the engine in a process that does not crash: it ends by the quit item only
NextNoCrash ==
    \/ Launch
    \/ SetupReset
    \/ SetupTray
    \/ SetupScheduler
    \/ Quit
    \/ Exit
    \/ TimePasses
    \/ SchedShutdown
    \/ SchedTick
    \/ SchedStep
    \/ InvokeSyncPlatform
    \/ InvokeSyncNow
    \/ SyncNowNext
    \/ UpdateRead
    \/ UpdateSet
    \/ UpdateEmit
    \/ ManifestLoad
    \/ RunEnds

SpecNoCrash == Init /\ [][NextNoCrash]_vars

\* the scheduler with live settings changes (no manual command, no quit)
NextSettings ==
    \/ Launch
    \/ SetupReset
    \/ SetupTray
    \/ SetupScheduler
    \/ Crash
    \/ TimePasses
    \/ InvokeSaveSettings
    \/ SchedTick
    \/ SchedStep
    \/ UpdateRead
    \/ UpdateSet
    \/ UpdateEmit
    \/ ManifestLoad
    \/ RunEnds

SpecSettings == Init /\ [][NextSettings]_vars

\* the scheduler with the settings-update signal of the shell: the listener
\* spawns its task, the task writes the lock, and the read of the lock by the
\* tick is two steps (the guard is got; the value is cloned and the guard
\* dropped)
NextSignal ==
    \/ Launch
    \/ SetupReset
    \/ SetupTray
    \/ SetupScheduler
    \/ Crash
    \/ TimePasses
    \/ ShellSignals
    \/ SettingsTaskRuns
    \/ TickReads
    \/ TickClones
    \/ SchedStep
    \/ UpdateRead
    \/ UpdateSet
    \/ UpdateEmit
    \/ ManifestLoad
    \/ RunEnds

SpecSignal == Init /\ [][NextSignal]_vars

-----------------------------------------------------------------------------
(* the inside of a run: run_apple_books_sync, run_safari_bookmarks_sync and *)
(* run_kindle_sync with their run_sync, one step per await.  The platform   *)
(* the sync_platform commands of a behaviour name is fixed by InitRun; no   *)
(* platform is enabled, so the ticks of the scheduler start nothing and     *)
(* are left out.                                                            *)

SettingsNone ==
    [ server_url |-> "http://localhost:8000",
      enabled |-> {}, interval_hours |-> [ k \in IntervalKeys |-> 1 ] ]

\* AppSettings::default() has an empty server_url
SettingsNoServer == [ SettingsNone EXCEPT !.server_url = "" ]

\* what read_books and read_annotations may find: the book with asset_id 1
\* in four states, the books with asset_id 2 and 3 in one, in several orders
Book(id, count, progress) ==
    [ asset_id |-> id, annot_count |-> count, reading_progress |-> progress ]

FirstBooks == { Book(1, 0, 0), Book(1, 1, 0), Book(1, 0, 5), Book(1, 0, 11) }

SmallLibraries ==
    { << >>, << Book(2, 0, 0) >> }
        \cup { << b >> : b \in FirstBooks }
        \cup { << b, Book(2, 0, 0) >> : b \in FirstBooks }
        \cup { << Book(2, 0, 0), b >> : b \in FirstBooks }
        \cup { << Book(2, 0, 0), b, Book(3, 0, 0) >> : b \in { Book(1, 1, 0), Book(1, 0, 5) } }

\* a library of n books that were never opened
UniformBooks(n) == [ i \in 1..n |-> Book(i, 0, 0) ]

Libraries ==
    SmallLibraries \cup { UniformBooks(APPLE_BOOKS_BATCH_SIZE), UniformBooks(MaxItems) }

\* what read_safari_bookmarks may find
AddedAts == { None, Some(0), Some(1), Some(2), Some(3) }

Bookmark(u, at) == [ url |-> u, added_at |-> at ]

BookmarkLists ==
    { << >> }
        \cup { << Bookmark(1, a) >> : a \in AddedAts }
        \cup { << Bookmark(1, a), Bookmark(2, b) >> : a \in { None, Some(2) }, b \in AddedAts }
        \cup { [ i \in 1..MaxItems |-> Bookmark(i, Some(3)) ] }

\* what parse_clippings and the grouping by title may give, in the order
\* books_map yields it: a HashMap, whose iteration order is arbitrary, so
\* the lists of two books occur in both orders and the long list in two
Clip(at) == [ added_at |-> at ]

ClipAddedAts == { None, Some(1), Some(3) }

KindleBook(t, clips) == [ title |-> t, clips |-> clips ]

FirstKindleBooks ==
    { KindleBook(1, << Clip(a) >>) : a \in ClipAddedAts }
        \cup { KindleBook(1, << Clip(a), Clip(b) >>) : a \in { None, Some(1) }, b \in ClipAddedAts }

KindleLists ==
    { << >>, << KindleBook(2, << Clip(None) >>) >> }
        \cup { << b >> : b \in FirstKindleBooks }
        \cup { << b, KindleBook(2, << Clip(None) >>) >> : b \in FirstKindleBooks }
        \cup { << KindleBook(2, << Clip(None) >>), b >> : b \in FirstKindleBooks }
        \cup { [ i \in 1..(KINDLE_BATCH_SIZE + 1) |-> KindleBook(i, << Clip(Some(3)) >>) ],
               [ i \in 1..(KINDLE_BATCH_SIZE + 1) |->
                   KindleBook(KINDLE_BATCH_SIZE + 2 - i, << Clip(Some(3)) >>) ] }

\* what /shelf/friendCommon may answer
WechatBook(id, marks) == [ bookId |-> id, marks |-> marks ]

MarkLists == { << >>, << Some(1), Some(3) >>, << None >> }

Shelves ==
    { << >>, << WechatBook(None, << >>) >> }
        \cup { << WechatBook(Some(1), m) >> : m \in MarkLists }
        \cup { << WechatBook(Some(1), m), WechatBook(None, << >>), WechatBook(Some(2), << >>) >> :
                  m \in MarkLists }
        \cup { [ i \in 1..n |-> WechatBook(Some(i), << >>) ] :
                  n \in { WECHAT_READ_BATCH_SIZE, 2 * WECHAT_READ_BATCH_SIZE + 1 } }

\* what the local file read after the Status call may hold (WeChat Read
\* reads nothing there)
Fetched(p) ==
    CASE p = "Kindle" -> KindleLists
      [] p = "WechatRead" -> { << >> }
      [] OTHER -> BookmarkLists

\* what the local lookups and reads before the first request may give: "ok",
\* or the text of the error run_sync returns.  Apple Books: find_apple_books_db
\* and find_library_db (one text stands for their bail! texts), read_books,
\* read_annotations; WeChat Read: HeaderValue::try_from of the cookie; Kindle:
\* find_clippings_file; the bookmark platforms read nothing before Setup.
LocalOutcomes(p) ==
    CASE p = "AppleBooks" ->
            { "ok", MsgAppleNoDb, MsgAppleBadLibrary, MsgAppleBadAnnotations }
      [] p = "WechatRead" -> { "ok", MsgWechatBadCookie }
      [] p = "Kindle" -> { "ok", MsgKindleNotFound }
      [] OTHER -> { "ok" }

\* what read_books gives to a run of p whose lookups and reads give local:
\* only Apple Books reads a library here, and an error before or in
\* read_books leaves nothing read
LibrariesRead(p, local) ==
    IF p = "AppleBooks" /\ local \in { "ok", MsgAppleBadAnnotations }
    THEN Libraries
    ELSE { << >> }

\* what the read of the local file after the Status call may give: "ok", or
\* the text of the error (std::fs::read_to_string of the clippings file;
\* safari_bookmarks_path / plist::from_file, chrome_bookmarks_path)
FetchOutcomes(p) ==
    CASE p = "Kindle" -> { "ok", MsgKindleUnreadable }
      [] p = "WechatRead" -> { "ok" }
      [] OTHER -> { "ok", MsgSafariNotFound }

\* the watermark the backend answers: none, or the text of the instant 2
Watermarks == { None, Some(2) }

\* data.source_id of the answers to Setup: the backend may have made the
\* source anew since the last run
SourceIds == { "source-1", "source-2" }

\* the answers of the backend to a call: 2xx, or an HTTP error status
HttpAnswers == { "ok", "401", "500" }

\* e.to_string() of the error run_sync returns: the outermost context
SetupFailedMsg(p) ==
    CASE p \in { "AppleBooks", "WechatRead" } -> "ebook setup failed"
      [] p = "Kindle" -> "ebook setup failed for Kindle"
      [] OTHER -> "bookmark setup failed"

StatusErrorMsg(p, http) ==
    IF p = "Kindle"
    THEN IF http = "401" THEN "ebook status error: 401 Unauthorized"
         ELSE "ebook status error: 500 Internal Server Error"
    ELSE IF http = "401" THEN "bookmark status error: 401 Unauthorized"
         ELSE "bookmark status error: 500 Internal Server Error"

PushFailedMsg(p) ==
    CASE p = "AppleBooks" -> "ebook sync batch failed"
      [] p = "Kindle" -> "Kindle ebook sync batch failed"
      [] p = "WechatRead" -> "ebook sync failed"
      [] OTHER -> "bookmark sync batch failed"

OkResult(count) ==
    [ ok |-> TRUE, count |-> count, book_count |-> 0, movie_count |-> 0, msg |-> "" ]

ErrResult(msg) ==
    [ ok |-> FALSE, count |-> 0, book_count |-> 0, movie_count |-> 0, msg |-> msg ]

\* run_sync returns
Returned(j, res) == [ j EXCEPT !.pc = "returned", !.result = res ]

\* the process is up, nothing has been synced, the scheduler waits for a
\* tick; the runs of a behaviour are started and end at one instant
InitRun ==
    /\ clock \in { 0, TimeStep }
    /\ main = [ MainDown EXCEPT !.pc = "up" ]
    /\ store = DefaultSyncState
    /\ settingsStore \in { SettingsNone, SettingsNoServer }
    /\ schedSettings = settingsStore
    /\ pending = EmptyBag
    /\ shutdown = ShutdownInit
    /\ sched = [ SchedNone EXCEPT !.pc = "select", !.settings = SchedNone.settings ]
    /\ runs = {}
    /\ cmds = [ k \in 1..MaxManual |-> CmdIdle ]
    /\ manifestStore = ManifestMissing
    /\ job \in { JobNone(p) : p \in RunPlatforms }
    /\ hist = HistInit

\* the call c is issued and the run waits for its answer
Call(j, c) == [ j EXCEPT !.pc = c, !.log = Append(j.log, c) ]

\* a plausible slip: the backend is set up before the configuration is looked at
EnteredSetupFirst(p, owner, settings, credentials, doc, books, local) ==
    Call([ JobNone(p) EXCEPT !.owner = owner, !.log = << "syncing" >>,
                             !.server_url = settings.server_url,
                             !.credentials = credentials,
                             !.items = IF p = "AppleBooks" THEN books ELSE << >> ],
         "setup")

\* run_sync returns the error of a local lookup or read
LocalFailed(j, local) == Returned([ j EXCEPT !.local = local ], ErrResult(local))

\* run_<p>_sync from its first line to the first await of run_sync: Syncing
\* is written, the configuration is tested; Apple Books loads its manifest,
\* finds and reads its databases (an empty library returns at once, before
\* the annotations are read); WeChat Read tests its cookies, builds its
\* client and asks for the shelf; Kindle finds its clippings file; then Setup
\* is called.  local is what the lookups and reads give.
Entered(p, owner, settings, credentials, doc, books, local) ==
    LET manifest == IF p = "AppleBooks"
                    THEN load_apple_books_manifest(doc)
                    ELSE EmptyManifest
        j == [ JobNone(p) EXCEPT !.owner = owner, !.log = << "syncing" >>,
                                 !.server_url = settings.server_url,
                                 !.credentials = credentials,
                                 !.doc = IF p = "AppleBooks" THEN doc.kind ELSE "",
                                 !.manifest = manifest,
                                 !.updated_manifest = manifest ]
    IN  IF settings.server_url = ""
        THEN Returned(j, ErrResult(MsgNotConfigured))
        ELSE CASE p = "AppleBooks" ->
                    IF local \in { MsgAppleNoDb, MsgAppleBadLibrary }
                    THEN LocalFailed(j, local)
                    ELSE LET read == [ j EXCEPT !.items = books,
                                                !.log = Append(j.log, "fetch") ]
                         IN  IF books = << >>
                             THEN Returned(read, OkResult(0))
                             ELSE IF local = MsgAppleBadAnnotations
                                  THEN LocalFailed(read, local)
                                  ELSE Call(read, "setup")
               [] p = "WechatRead" ->
                    IF ~credentials
                    THEN Returned(j, ErrResult(MsgWechatNoCredentials))
                    ELSE IF local # "ok"
                         THEN LocalFailed(j, local)
                         ELSE Call(j, "fetch")
               [] OTHER ->
                    IF local # "ok"
                    THEN LocalFailed(j, local)
                    ELSE Call(j, "setup")

\* sync_platform(p): load_settings, then run_<p>_sync up to its first await
Started(p, credentials, books, local) ==
    /\ Up
    /\ job.pc = "idle"
    /\ job.platform = p
    /\ FreeSlot(1)
    /\ store' = update_platform_status(store, p, "Syncing")
    /\ runs' = runs \cup { [ owner |-> 1, platform |-> p ] }
    /\ cmds' = [ cmds EXCEPT ![1] =
                   [ CmdIdle EXCEPT !.kind = "sync_platform", !.pc = "await" ] ]
    /\ job' = Entered(p, 1, settingsStore, credentials, manifestStore, books, local)
    /\ UNCHANGED << clock, main, settingsStore, schedSettings, pending,
                    shutdown, sched, manifestStore >>

RunStarts(p, credentials, books, local) ==
    /\ Started(p, credentials, books, local)
    /\ hist' = [ hist EXCEPT !.stale = hist.stale \ { p },
                                       !.event = emit(store') ]

\* the answer to /shelf/friendCommon arrives (WeChat Read)
FetchReturns(http, books) ==
    /\ job.pc = "fetch"
    /\ job' = CASE http = "401" ->
                     Returned([ job EXCEPT !.http = http ], ErrResult(MsgWechatExpired))
                [] http = "500" ->
                     Returned([ job EXCEPT !.http = http ], ErrResult(MsgWechatShelfError))
                [] OTHER ->
                     IF books = << >>
                     THEN Returned(job, OkResult(0))
                     ELSE Call([ job EXCEPT !.items = books ], "setup")
    /\ UNCHANGED << clock, main, store, settingsStore, schedSettings, pending,
                    shutdown, sched, runs, cmds, manifestStore, hist >>

\* a plausible slip: the test for an empty subset is missing
AfterFilterAlwaysPush(j, subset) ==
    Call([ j EXCEPT !.subset = subset, !.k = 1 ], "push")

\* the first chunk is about to be pushed, or there is nothing to push
AfterFilter(j, subset) ==
    IF subset = << >>
    THEN Returned([ j EXCEPT !.subset = subset ], OkResult(0))
    ELSE Call([ j EXCEPT !.subset = subset, !.k = 1 ], "push")

\* run_sync of run j after the answer to <kind>_setup.  Apple Books filters
\* its books now.
AfterSetup(j, http, sid) ==
    IF http # "ok"
    THEN Returned([ j EXCEPT !.http = http ], ErrResult(SetupFailedMsg(j.platform)))
    ELSE LET jj == [ j EXCEPT !.source_id = Some(sid) ]
         IN  IF j.platform = "AppleBooks"
             THEN AfterFilter(jj, changed_books(j.manifest, j.items))
             ELSE Call(jj, "status")

\* the answer to <kind>_setup arrives
SetupReturns(http, sid) ==
    /\ job.pc = "setup"
    /\ job' = AfterSetup(job, http, sid)
    /\ UNCHANGED << clock, main, store, settingsStore, schedSettings, pending,
                    shutdown, sched, runs, cmds, manifestStore, hist >>

\* ebook_status(...).await.unwrap_or(None) in wechat_read.rs;
\* <kind>_status(...).await? in browser_bookmarks.rs and kindle.rs
StatusTolerated(p) == p = "WechatRead"

\* the answer to <kind>_status arrives (bookmarks, Kindle, WeChat Read): an
\* error ends the run unless the adapter tolerates it; then the local file
\* is read (bookmarks, Kindle; read is "ok" or the text of its error) and
\* the items are filtered by the watermark
AfterStatus(j, http, last_sync_at, items, read) ==
    IF http # "ok" /\ ~StatusTolerated(j.platform)
    THEN Returned([ j EXCEPT !.http = http, !.status_http = http ],
                  ErrResult(StatusErrorMsg(j.platform, http)))
    ELSE LET last_sync_ts == IF http = "ok"
                             THEN ParsedTimestamp(last_sync_at)
                             ELSE None
         IN  IF j.platform = "WechatRead"
             THEN AfterFilter([ j EXCEPT !.last_sync_ts = last_sync_ts,
                                         !.status_http = http ],
                              Filtered(j.platform, last_sync_ts, j.items))
             ELSE LET answered == [ j EXCEPT !.last_sync_ts = last_sync_ts,
                                             !.status_http = http ]
                      fetched == [ answered EXCEPT !.items = items,
                                                   !.log = Append(j.log, "fetch") ]
                  IN  IF read # "ok"
                      THEN LocalFailed(answered, read)
                      ELSE IF items = << >>
                           THEN Returned(fetched, OkResult(0))
                           ELSE AfterFilter(fetched,
                                            Filtered(j.platform, last_sync_ts, items))

StatusReturns(http, last_sync_at, items, read) ==
    /\ job.pc = "status"
    /\ job' = AfterStatus(job, http, last_sync_at, items, read)
    /\ UNCHANGED << clock, main, store, settingsStore, schedSettings, pending,
                    shutdown, sched, runs, cmds, manifestStore, hist >>

\* a plausible slip: a failed chunk is logged and the loop goes on
AfterPushFailedGoOn(j, http) ==
    IF j.k < NumChunks(j.subset, BatchSize(j.platform))
    THEN Call([ j EXCEPT !.k = j.k + 1 ], "push")
    ELSE Returned(j, OkResult(j.total_synced))

\* `?` on the error of a Push: run_sync returns it, the loop is left
AfterPushFailed(j, http) ==
    Returned([ j EXCEPT !.http = http ], ErrResult(PushFailedMsg(j.platform)))

\* the chunk was accepted: the manifest entries of its books are updated
\* (Apple Books), the count grows, the loop goes on or run_sync returns
AfterPushOk(j) ==
    LET chunk == Chunk(j.subset, BatchSize(j.platform), j.k)
        jj == [ j EXCEPT
                  !.total_synced = j.total_synced + Len(chunk),
                  !.updated_manifest =
                      IF j.platform = "AppleBooks"
                      THEN ManifestAfterChunk(j.updated_manifest, chunk)
                      ELSE j.updated_manifest ]
    IN  IF j.k < NumChunks(j.subset, BatchSize(j.platform))
        THEN Call([ jj EXCEPT !.k = j.k + 1 ], "push")
        ELSE Returned(jj, OkResult(jj.total_synced))

\* a plausible slip: the payload names the source by a constant of the adapter
PushSourceIdConstant(j) == "source-1"

\* "source_id": source_id of the payload of a Push
PushSourceId(j) == j.source_id[1]

\* a plausible slip: the manifest is saved after every accepted chunk
ManifestStoreFlushedAfterPush(doc, j) ==
    IF j.platform = "AppleBooks" /\ j.pushes[Len(j.pushes)].ok
    THEN save_apple_books_manifest(j.updated_manifest)
    ELSE doc

\* run_sync has the manifest as a shared borrow and updates a clone of it,
\* updated_manifest: the document in the store is not written in the loop
ManifestStoreAfterPush(doc, j) == doc

\* the answer to the Push of chunk k arrives (every book_id of a WeChat Read
\* chunk is found in books, so its ebooks are never empty and each chunk is
\* pushed)
AfterPush(j, http) ==
    LET chunk == Chunk(j.subset, BatchSize(j.platform), j.k)
        logged == [ j EXCEPT !.pushes = Append(j.pushes,
                      [ batch |-> j.k, size |-> Len(chunk), ok |-> http = "ok",
                        source_id |-> PushSourceId(j),
                        items |-> Payload(j.platform, j.items, chunk,
                                          j.last_sync_ts) ]) ]
    IN  IF http = "ok" THEN AfterPushOk(logged) ELSE AfterPushFailed(logged, http)

PushReturns(http) ==
    /\ job.pc = "push"
    /\ job' = AfterPush(job, http)
    /\ manifestStore' = ManifestStoreAfterPush(manifestStore, job')
    /\ UNCHANGED << clock, main, store, settingsStore, schedSettings, pending,
                    shutdown, sched, runs, cmds, hist >>

\* <platform>_last = Some(std::time::Instant::now()), whatever the result
LastRunAfter(last, res, now) == Some(now)

\* run_sync has returned: Apple Books saves the manifest it got back (Ok
\* only), the final status is written, and the caller goes on: sync_platform
\* returns, the scheduler sets last_run and goes to its next if-statement
RunReturns ==
    /\ job.pc = "returned"
    /\ store' = FinalWrite(store, job.platform, job.result, clock)
    /\ manifestStore' = IF job.result.ok /\ job.platform = "AppleBooks"
                        THEN save_apple_books_manifest(job.updated_manifest)
                        ELSE manifestStore
    /\ runs' = runs \ { [ owner |-> job.owner, platform |-> job.platform ] }
    /\ IF job.owner = 0
       THEN /\ sched' = [ sched EXCEPT
                            !.last_run[job.platform] =
                                LastRunAfter(sched.last_run[job.platform], job.result, clock),
                            !.pc = "between",
                            !.idx = sched.idx + 1 ]
            /\ UNCHANGED cmds
       ELSE /\ cmds' = [ cmds EXCEPT ![job.owner] = CmdIdle ]
            /\ UNCHANGED sched
    /\ job' = [ job EXCEPT
                  !.pc = "idle",
                  !.outcome = SyncResult(job.platform, job.result),
                  !.log = IF job.result.ok /\ job.platform = "AppleBooks"
                          THEN job.log \o << "manifest", "final" >>
                          ELSE Append(job.log, "final") ]
    /\ hist' = [ hist EXCEPT !.event = emit(store') ]
    /\ UNCHANGED << clock, main, settingsStore, schedSettings, pending,
                    shutdown >>

\* the keychain as a run may find it (only WeChat Read looks)
Keychains(p) == IF p = "WechatRead" THEN BOOLEAN ELSE { TRUE }

\* between two runs something outside the program damages the manifest
\* document: it no longer parses as a map of BookManifestEntry
ManifestDamaged ==
    /\ job.pc = "idle"
    /\ manifestStore.kind = "ok"
    /\ manifestStore' = [ manifestStore EXCEPT !.kind = "corrupt" ]
    /\ UNCHANGED << clock, main, store, settingsStore, schedSettings, pending,
                    shutdown, sched, runs, cmds, job, hist >>

InvokeRun ==
    \E p \in RunPlatforms :
        \E credentials \in Keychains(p), local \in LocalOutcomes(p) :
            \E books \in LibrariesRead(p, local) :
                RunStarts(p, credentials, books, local)

FetchAnswered == \E http \in HttpAnswers, books \in Shelves : FetchReturns(http, books)

SetupAnswered == \E http \in HttpAnswers, sid \in SourceIds : SetupReturns(http, sid)

StatusAnswered ==
    \E http \in HttpAnswers, w \in Watermarks, read \in FetchOutcomes(job.platform) :
        \E items \in IF read = "ok" THEN Fetched(job.platform) ELSE { << >> } :
            StatusReturns(http, w, items, read)

PushAnswered == \E http \in HttpAnswers : PushReturns(http)

NextRun ==
    \/ InvokeRun
    \/ ManifestDamaged
    \/ FetchAnswered
    \/ SetupAnswered
    \/ StatusAnswered
    \/ PushAnswered
    \/ RunReturns

SpecRun == InitRun /\ [][NextRun]_vars

-----------------------------------------------------------------------------
(* the scheduler with the inside of the runs it starts: one platform is     *)
(* enabled, with an interval of one hour; no command, no crash, no quit     *)

SettingsOnly(p) == [ SettingsNone EXCEPT !.enabled = { p } ]

InitTick ==
    /\ clock = 0
    /\ main = [ MainDown EXCEPT !.pc = "up" ]
    /\ store = DefaultSyncState
    /\ job \in { JobNone(p) : p \in RunPlatforms }
    /\ settingsStore = SettingsOnly(job.platform)
    /\ schedSettings = settingsStore
    /\ pending = EmptyBag
    /\ shutdown = ShutdownInit
    /\ sched = [ SchedNone EXCEPT !.pc = "select", !.nextTick = clock,
                                  !.last_run = InitialLastRun ]
    /\ runs = {}
    /\ cmds = [ k \in 1..MaxManual |-> CmdIdle ]
    /\ manifestStore = ManifestMissing
    /\ hist = HistInit

\* the if-statements of the tick branch, with run_<platform>_sync(&self.app_handle,
\* &settings) entered up to its first await
TickStep ==
    \E credentials \in Keychains(job.platform), local \in LocalOutcomes(job.platform) :
      \E books \in LibrariesRead(job.platform, local) :
        SchedStepTo(LAMBDA p : Entered(p, 0, sched.settings, credentials,
                                       manifestStore, books, local))

NextTick ==
    \/ SchedTick
    \/ TickStep
    \/ FetchAnswered
    \/ SetupAnswered
    \/ StatusAnswered
    \/ PushAnswered
    \/ RunReturns
    \/ TimePasses

SpecTick == InitTick /\ [][NextTick]_vars

-----------------------------------------------------------------------------
(* commands/sync.rs: update_platform_status, update_platform_success and    *)
(* update_platform_error opened: the document is read (store.get), one      *)
(* platform's fields are changed in the copy, and the copy is written back   *)
(* (store.set, store.save) and emitted (app.emit with the copy).  The        *)
(* scheduler task and the task of a command run on the threads of the async  *)
(* runtime, and nothing is held between the get, the set and the emit.       *)

\* the platform the scheduler runs and the platform sync_platform is called
\* for: two platforms whose wrappers write nothing but the sync_state document
UpdatePlatform(owner) == IF owner = 0 THEN "Kindle" ELSE "WechatRead"

\* the callers of run_<platform>_sync: the scheduler (0) and a command (1)
UpdateOwners == { 0, 1 }

InitUpdate ==
    /\ clock = 0
    /\ main = [ MainDown EXCEPT !.pc = "up" ]
    /\ store = DefaultSyncState
    /\ settingsStore = SettingsB
    /\ schedSettings = settingsStore
    /\ pending = EmptyBag
    /\ shutdown = ShutdownInit
    /\ sched = [ SchedNone EXCEPT !.pc = "select", !.settings = SettingsB ]
    /\ runs = {}
    /\ cmds = [ k \in 1..MaxManual |-> CmdIdle ]
    /\ manifestStore = ManifestMissing
    /\ job = JobNone("AppleBooks")
    /\ hist = HistInit

\* store.get(SYNC_STATE_KEY) of the update_platform_status(Syncing) that
\* begins a run: state is the copy the update works on, with the status
\* changed
StartReads(owner) ==
    /\ \A r \in runs : r.owner # owner
    /\ runs' = runs \cup { [ owner |-> owner, platform |-> UpdatePlatform(owner),
                             pc |-> "start",
                             state |-> update_platform_status(store, UpdatePlatform(owner),
                                                              "Syncing"),
                             res |-> NoResult ] }
    /\ UNCHANGED << clock, main, store, settingsStore, schedSettings, pending,
                    shutdown, sched, cmds, manifestStore, job, hist >>

\* store.set and store.save of that update: the document is the copy of the
\* caller
StartWrites(r) ==
    /\ r.pc = "start"
    /\ store' = r.state
    /\ runs' = ( runs \ { r } ) \cup { [ r EXCEPT !.pc = "started" ] }
    /\ hist' = [ hist EXCEPT !.wrote[r.platform] = Some(store'[r.platform]) ]
    /\ UNCHANGED << clock, main, settingsStore, schedSettings, pending,
                    shutdown, sched, cmds, manifestStore, job >>

\* app.emit("sync-status-changed", &state) of that update: the event carries
\* the copy of the caller; run_sync is entered
StartEmits(r) ==
    /\ r.pc = "started"
    /\ runs' = ( runs \ { r } ) \cup { [ r EXCEPT !.pc = "running" ] }
    /\ hist' = [ hist EXCEPT !.event = emit(r.state) ]
    /\ UNCHANGED << clock, main, store, settingsStore, schedSettings, pending,
                    shutdown, sched, cmds, manifestStore, job >>

\* run_sync has returned res; store.get of the final update and the time
\* read right after it: state is the copy with the final record of the
\* platform, its last_sync the time of this step
EndReads(r, res) ==
    /\ r.pc = "running"
    /\ runs' = ( runs \ { r } ) \cup
                 { [ r EXCEPT !.pc = "end",
                              !.state = FinalWrite(store, r.platform, res, clock),
                              !.res = res ] }
    /\ UNCHANGED << clock, main, store, settingsStore, schedSettings, pending,
                    shutdown, sched, cmds, manifestStore, job, hist >>

\* store.set and store.save of the final update: the document is the copy
\* of the caller, whatever time has passed since it was made
EndWrites(r) ==
    /\ r.pc = "end"
    /\ store' = r.state
    /\ runs' = ( runs \ { r } ) \cup { [ r EXCEPT !.pc = "ended" ] }
    /\ hist' = [ hist EXCEPT !.wrote[r.platform] = Some(store'[r.platform]) ]
    /\ UNCHANGED << clock, main, settingsStore, schedSettings, pending,
                    shutdown, sched, cmds, manifestStore, job >>

\* app.emit of the final update: the event carries the copy of the caller;
\* run_<platform>_sync returns
EndEmits(r) ==
    /\ r.pc = "ended"
    /\ runs' = runs \ { r }
    /\ hist' = [ hist EXCEPT !.event = emit(r.state) ]
    /\ UNCHANGED << clock, main, store, settingsStore, schedSettings, pending,
                    shutdown, sched, cmds, manifestStore, job >>

UpdateStartRead == \E owner \in UpdateOwners : StartReads(owner)

UpdateStartWrite == \E r \in runs : StartWrites(r)

UpdateStartEmit == \E r \in runs : StartEmits(r)

UpdateEndRead == \E r \in runs : \E res \in RunSyncResults(r.platform) : EndReads(r, res)

UpdateEndWrite == \E r \in runs : EndWrites(r)

UpdateEndEmit == \E r \in runs : EndEmits(r)

NextUpdate ==
    \/ UpdateStartRead
    \/ UpdateStartWrite
    \/ UpdateStartEmit
    \/ UpdateEndRead
    \/ UpdateEndWrite
    \/ UpdateEndEmit
    \/ TimePasses

SpecUpdate == InitUpdate /\ [][NextUpdate]_vars

-----------------------------------------------------------------------------
(* Two Apple Books runs side by side: the scheduler's and the one of a      *)
(* sync_platform command, which starts without looking for a run in flight. *)
(* A run in flight is kept in runs with the locals of run_sync.             *)

\* what read_books finds when a run of the pair reads the library: the
\* library changes between the two reads
PairLibraries ==
    { << Book(2, 0, 0) >>, << Book(1, 0, 0), Book(2, 0, 0) >>, << Book(1, 0, 11) >> }

\* the fingerprint a manifest entry records of a book
Fingerprint(book) ==
    [ asset_id |-> book.asset_id,
      entry |-> BookManifestEntry(book.annot_count, book.reading_progress) ]

InitPair ==
    /\ clock = 0
    /\ main = [ MainDown EXCEPT !.pc = "up" ]
    /\ store = DefaultSyncState
    /\ settingsStore = SettingsA
    /\ schedSettings = settingsStore
    /\ pending = EmptyBag
    /\ shutdown = ShutdownInit
    /\ sched = [ SchedNone EXCEPT !.pc = "select", !.settings = SettingsA ]
    /\ runs = {}
    /\ cmds = [ k \in 1..MaxManual |-> CmdIdle ]
    /\ manifestStore = ManifestMissing
    /\ job = JobNone("AppleBooks")
    /\ hist = HistInit

\* the run of owner that is inside run_sync or has returned from it
PairRun(owner) == { r \in runs : r.owner = owner }

\* run_apple_books_sync is called by owner: store.get of
\* update_platform_status(Syncing)
PairStarts(owner) ==
    /\ UpdOf(owner).pc = "none"
    /\ hist.started < MaxRuns
    /\ hist' = [ hist EXCEPT !.started = hist.started + 1 ]
    /\ WithUpd([ owner |-> owner ], StartRead(store, "AppleBooks"))
    /\ UNCHANGED << clock, main, store, settingsStore, schedSettings, pending,
                    shutdown, runs, manifestStore, job >>

\* store.set and store.save of the update owner is in
PairSets(owner) ==
    /\ UpdOf(owner).pc = "set"
    /\ store' = UpdOf(owner).state
    /\ WithUpd([ owner |-> owner ], [ UpdOf(owner) EXCEPT !.pc = "emit" ])
    /\ UNCHANGED << clock, main, settingsStore, schedSettings, pending,
                    shutdown, runs, manifestStore, job, hist >>

\* app.emit of the update that begins the run of owner: the manifest is
\* loaded next
PairEmits(owner) ==
    /\ UpdOf(owner).pc = "emit"
    /\ UpdOf(owner).at = "start"
    /\ hist' = [ hist EXCEPT !.event = emit(UpdOf(owner).state) ]
    /\ WithUpd([ owner |-> owner ], [ UpdNone EXCEPT !.pc = "load" ])
    /\ UNCHANGED << clock, main, store, settingsStore, schedSettings, pending,
                    shutdown, runs, manifestStore, job >>

\* load_apple_books_manifest of owner: the store.get of the manifest document
\* as it is now; run_sync is entered with it and the library is read
PairEnters(owner, books) ==
    /\ UpdOf(owner).pc = "load"
    /\ WithUpd([ owner |-> owner ], [ UpdNone EXCEPT !.pc = "run" ])
    /\ runs' = runs \cup { Entered("AppleBooks", owner, settingsStore, TRUE,
                                   manifestStore, books, "ok") }
    /\ UNCHANGED << clock, main, store, settingsStore, schedSettings, pending,
                    shutdown, manifestStore, job, hist >>

\* the answer to the Setup of run r arrives
PairSetupReturns(r, http, sid) ==
    /\ r.pc = "setup"
    /\ runs' = ( runs \ { r } ) \cup { AfterSetup(r, http, sid) }
    /\ UNCHANGED << clock, main, store, settingsStore, schedSettings, pending,
                    shutdown, sched, cmds, manifestStore, job, hist >>

\* the answer to a Push of run r arrives
PairPushReturns(r, http) ==
    /\ r.pc = "push"
    /\ runs' = ( runs \ { r } ) \cup { AfterPush(r, http) }
    /\ hist' = IF http = "ok"
               THEN LET chunk == Chunk(r.subset, BatchSize(r.platform), r.k)
                    IN  [ hist EXCEPT !.acked =
                            hist.acked \cup { Fingerprint(chunk[i]) : i \in 1..Len(chunk) } ]
               ELSE hist
    /\ UNCHANGED << clock, main, store, settingsStore, schedSettings, pending,
                    shutdown, sched, cmds, manifestStore, job >>

\* run_sync of run r has returned: the manifest is saved (Ok only); the
\* final update comes next
PairReturns(r) ==
    /\ r.pc = "returned"
    /\ UpdOf(r.owner).pc = "run"
    /\ manifestStore' = IF r.result.ok
                        THEN save_apple_books_manifest(r.updated_manifest)
                        ELSE manifestStore
    /\ WithUpd(r, [ UpdNone EXCEPT !.pc = "read", !.at = "end", !.res = r.result ])
    /\ UNCHANGED << clock, main, store, settingsStore, schedSettings, pending,
                    shutdown, runs, job, hist >>

\* store.get of the final update of owner
PairReads(owner) ==
    /\ UpdOf(owner).pc = "read"
    /\ WithUpd([ owner |-> owner ],
               [ UpdOf(owner) EXCEPT
                   !.pc = "set",
                   !.state = FinalWrite(store, "AppleBooks", UpdOf(owner).res, clock) ])
    /\ UNCHANGED << clock, main, store, settingsStore, schedSettings, pending,
                    shutdown, runs, manifestStore, job, hist >>

\* app.emit of the final update: run_apple_books_sync returns to its caller
PairLeaves(owner) ==
    /\ UpdOf(owner).pc = "emit"
    /\ UpdOf(owner).at = "end"
    /\ hist' = [ hist EXCEPT !.event = emit(UpdOf(owner).state) ]
    /\ WithUpd([ owner |-> owner ], UpdNone)
    /\ runs' = runs \ PairRun(owner)
    /\ UNCHANGED << clock, main, store, settingsStore, schedSettings, pending,
                    shutdown, manifestStore, job >>

PairInvoke == \E owner \in UpdateOwners : PairStarts(owner)

PairUpdateSet == \E owner \in UpdateOwners : PairSets(owner)

PairEmit == \E owner \in UpdateOwners : PairEmits(owner)

PairEnter == \E owner \in UpdateOwners, books \in PairLibraries : PairEnters(owner, books)

PairSetupAnswered ==
    \E r \in runs : \E http \in HttpAnswers, sid \in SourceIds : PairSetupReturns(r, http, sid)

PairPushAnswered == \E r \in runs : \E http \in HttpAnswers : PairPushReturns(r, http)

PairRunReturns == \E r \in runs : PairReturns(r)

PairUpdateRead == \E owner \in UpdateOwners : PairReads(owner)

PairLeave == \E owner \in UpdateOwners : PairLeaves(owner)

NextPair ==
    \/ PairInvoke
    \/ PairUpdateSet
    \/ PairEmit
    \/ PairEnter
    \/ PairSetupAnswered
    \/ PairPushAnswered
    \/ PairRunReturns
    \/ PairUpdateRead
    \/ PairLeave

SpecPair == InitPair /\ [][NextPair]_vars

-----------------------------------------------------------------------------
(* run after run of Apple Books over a library that stays: read_books finds  *)
(* what the run before found, or the same books after some reading; the      *)
(* settings are valid; no crash, no quit, one run at a time                  *)

\* what the first read_books may find
StartLibraries ==
    { << Book(1, 0, 0) >>, << Book(1, 0, 0), Book(2, 0, 0) >>, UniformBooks(MaxItems) }

\* the user has read on in the book with asset_id 1
ReadOn(books) ==
    [ i \in 1..Len(books) |->
        IF books[i].asset_id = 1 /\ books[i].reading_progress = 0
        THEN Book(1, books[i].annot_count, 11)
        ELSE books[i] ]

\* what read_books may find, given what the run before found
NextRead(j) ==
    IF j.log = << >> THEN StartLibraries ELSE { j.items, ReadOn(j.items) }

InitSame ==
    /\ clock = 0
    /\ main = [ MainDown EXCEPT !.pc = "up" ]
    /\ store = DefaultSyncState
    /\ settingsStore = SettingsNone
    /\ schedSettings = settingsStore
    /\ pending = EmptyBag
    /\ shutdown = ShutdownInit
    /\ sched = [ SchedNone EXCEPT !.pc = "select", !.settings = SchedNone.settings ]
    /\ runs = {}
    /\ cmds = [ k \in 1..MaxManual |-> CmdIdle ]
    /\ manifestStore = ManifestMissing
    /\ job = JobNone("AppleBooks")
    /\ hist = HistInit

\* sync_platform(AppleBooks) is invoked
SameStarts(books) ==
    /\ Started("AppleBooks", TRUE, books, "ok")
    /\ hist' = [ hist EXCEPT !.stale = hist.stale \ { "AppleBooks" },
                             !.event = emit(store'),
                             !.again = job.result.ok /\ books = job.items ]

InvokeSame == \E books \in NextRead(job) : SameStarts(books)

SetupAccepted == \E sid \in SourceIds : SetupReturns("ok", sid)

PushAccepted(k) == job.k = k /\ PushReturns("ok")

\* the chunks of the longest changed subset
MaxChunks == (MaxItems + APPLE_BOOKS_BATCH_SIZE - 1) \div APPLE_BOOKS_BATCH_SIZE

NextSame ==
    \/ InvokeSame
    \/ SetupAnswered
    \/ PushAnswered
    \/ RunReturns
    \/ TimePasses

SpecSame == InitSame /\ [][NextSame]_vars

\* runs keep being started, every call is answered, and Setup and the Push
\* of each chunk are accepted again and again, if asked again and again
SpecSameFair ==
    /\ InitSame
    /\ [][NextSame]_vars
    /\ WF_vars(InvokeSame)
    /\ WF_vars(SetupAnswered)
    /\ WF_vars(PushAnswered)
    /\ WF_vars(RunReturns)
    /\ SF_vars(SetupAccepted)
    /\ \A k \in 1..MaxChunks : SF_vars(PushAccepted(k))

-----------------------------------------------------------------------------
(* run after run of a timestamp-threshold source (Safari bookmarks, Kindle)  *)
(* against a backend that keeps a watermark for the source: Status answers   *)
(* it, an acknowledged Push advances it.  The local file keeps the items     *)
(* that were not pushed.                                                     *)

MarkPlatforms == { "SafariBookmarks", "Kindle" }

\* the timestamps of the items of a chunk
ChunkTimestamps(p, chunk) ==
    IF p = "Kindle"
    THEN UNION { { ParsedTimestamp(chunk[i].clips[n].added_at)[1] :
                      n \in { n \in 1..Len(chunk[i].clips) :
                                ParsedTimestamp(chunk[i].clips[n].added_at) # None } } :
                 i \in 1..Len(chunk) }
    ELSE { ParsedTimestamp(chunk[i].added_at)[1] :
              i \in { i \in 1..Len(chunk) : ParsedTimestamp(chunk[i].added_at) # None } }

Greatest(S) == CHOOSE t \in S : \A u \in S : u <= t

\* the instant of an acknowledgement: later than every added_at of the file
AckInstant == 1 + Greatest({ a[1] : a \in AddedAts \ { None } })

\* the watermark of the backend after it has acknowledged a chunk: the
\* timestamp of the last synced item, read as the greatest timestamp it has
\* been sent or as the instant at which it acknowledged
WatermarksAfterAck(w, p, chunk) ==
    LET sent == ChunkTimestamps(p, chunk) \cup ( IF w = None THEN {} ELSE { w[1] } )
    IN  { IF sent = {} THEN w ELSE Some(Greatest(sent)), Some(AckInstant) }

\* the files that still hold every item that was not pushed
FilesKeeping(p, unpushed) ==
    { items \in Fetched(p) : unpushed \subseteq { items[i] : i \in 1..Len(items) } }

InitMark ==
    /\ clock = 0
    /\ main = [ MainDown EXCEPT !.pc = "up" ]
    /\ store = DefaultSyncState
    /\ settingsStore = SettingsNone
    /\ schedSettings = settingsStore
    /\ pending = EmptyBag
    /\ shutdown = ShutdownInit
    /\ sched = [ SchedNone EXCEPT !.pc = "select", !.settings = SchedNone.settings ]
    /\ runs = {}
    /\ cmds = [ k \in 1..MaxManual |-> CmdIdle ]
    /\ manifestStore = ManifestMissing
    /\ job \in { JobNone(p) : p \in MarkPlatforms }
    /\ hist = HistInit

\* the answer to <kind>_status arrives: it is the watermark of the backend;
\* the file is read and filtered
MarkStatusReturns(http, items) ==
    /\ job.pc = "status"
    /\ job' = AfterStatus(job, http, hist.watermark, items, "ok")
    /\ hist' = IF http = "ok"
               THEN [ hist EXCEPT !.unpushed =
                        { job'.subset[i] : i \in 1..Len(job'.subset) } ]
               ELSE hist
    /\ UNCHANGED << clock, main, store, settingsStore, schedSettings, pending,
                    shutdown, sched, runs, cmds, manifestStore >>

\* the answer to the Push of chunk k arrives: the backend that acknowledged
\* the chunk has advanced its watermark
MarkPushReturns(http, w) ==
    /\ job.pc = "push"
    /\ job' = AfterPush(job, http)
    /\ LET chunk == Chunk(job.subset, BatchSize(job.platform), job.k) IN
          hist' = IF http = "ok"
                  THEN [ hist EXCEPT
                           !.watermark = w,
                           !.unpushed = hist.unpushed
                                           \ { chunk[i] : i \in 1..Len(chunk) } ]
                  ELSE hist
    /\ UNCHANGED << clock, main, store, settingsStore, schedSettings, pending,
                    shutdown, sched, runs, cmds, manifestStore >>

MarkInvoke == \E p \in MarkPlatforms : RunStarts(p, TRUE, << >>, "ok")

MarkStatusAnswered ==
    \E http \in HttpAnswers, items \in FilesKeeping(job.platform, hist.unpushed) :
        MarkStatusReturns(http, items)

MarkPushAnswered ==
    /\ job.pc = "push"
    /\ \E http \in HttpAnswers :
        \E w \in WatermarksAfterAck(hist.watermark, job.platform,
                                    Chunk(job.subset, BatchSize(job.platform), job.k)) :
            MarkPushReturns(http, w)

NextMark ==
    \/ MarkInvoke
    \/ SetupAnswered
    \/ MarkStatusAnswered
    \/ MarkPushAnswered
    \/ RunReturns

SpecMark == InitMark /\ [][NextMark]_vars

-----------------------------------------------------------------------------
(* Properties *)

InFlight(p) == { r \in runs : r.platform = p }

SchedulerRuns == { r \in runs : r.owner = 0 }

\* the scheduler starts a run of p in this step
SchedStartsRun(p) == [ owner |-> 0, platform |-> p ] \in runs' \ runs

Terminal == { "Success", "Error", "NeedsAuth" }

\* the update record of the caller of a run after the step
UpdAfter(owner) == IF owner = 0 THEN sched'.upd ELSE cmds'[owner].upd

\* the store.set of an update of run r is this step
SetsNow(r) ==
    /\ r \in runs
    /\ UpdOf(r.owner).pc = "set"
    /\ UpdAfter(r.owner).pc = "emit"

\* the store.set of the update that begins run r is this step
StartSetNow(r) == SetsNow(r) /\ UpdOf(r.owner).at = "start"

\* the store.set of the final update of run r is this step
FinalSetNow(r) == SetsNow(r) /\ UpdOf(r.owner).at = "end"

\* run r returns to its caller in this step
ReturnsNow(r) ==
    /\ r \in runs \ runs'
    /\ main'.pc = "up"

\* run r is between its write of Syncing and its final write
Running(r) ==
    LET u == UpdOf(r.owner) IN
        \/ u.pc \in { "load", "run", "read" }
        \/ u.pc = "emit" /\ u.at = "start"
        \/ u.pc = "set" /\ u.at = "end"

RunningOf(p) == { r \in InFlight(p) : Running(r) }

\* the step of the setup closure that calls reset_stale_sync_state
ResetStepTaken ==
    /\ main.pc = "setup"
    /\ SetupOrder[main.step] = "reset"
    /\ main' # main
    /\ main'.pc # "down"

\* C1: at every instant and for every source at most one run of that source
\* is in flight, scheduler-started and manual runs counted together.
C1_AtMostOneRunPerSource ==
    \A p \in Platform : Cardinality(RunningOf(p)) <= 1

\* C2: every change of a persisted status is Idle->Syncing, Syncing->terminal,
\* terminal->Syncing or the startup reset Syncing->Idle; a terminal status is
\* never overwritten by another terminal status and no run start writes
\* Syncing over Syncing.
C2_OnlySpecifiedTransitions ==
    [][ /\ \A p \in Platform :
              store'[p].status # store[p].status =>
                  \/ store[p].status = "Idle" /\ store'[p].status = "Syncing"
                  \/ store[p].status = "Syncing" /\ store'[p].status \in Terminal
                  \/ store[p].status \in Terminal /\ store'[p].status = "Syncing"
                  \/ /\ store[p].status = "Syncing" /\ store'[p].status = "Idle"
                     /\ ResetStepTaken
        /\ \A r \in runs : StartSetNow(r) => store[r.platform].status # "Syncing"
      ]_vars

\* C3: the startup recovery turns every persisted Syncing into Idle, on all
\* platforms, and changes no other status and no last_sync, count or error.
C3_ResetOnlySyncingToIdle ==
    [][ ResetStepTaken =>
          \A p \in Platform :
              /\ store[p].status = "Syncing" => store'[p].status = "Idle"
              /\ store[p].status # "Syncing" => store'[p].status = store[p].status
              /\ store'[p].last_sync = store[p].last_sync
              /\ store'[p].count = store[p].count
              /\ store'[p].error = store[p].error
      ]_vars

\* C3 witness: the reset has just turned a stale Syncing of a platform that
\* had synced before into Idle, and the platform has kept last_sync and count.
C3_Witness ==
    /\ main.pc = "setup"
    /\ \E p \in main.resetChanged :
          /\ store[p].status = "Idle"
          /\ store[p].last_sync # None
          /\ store[p].count = 2

\* C4: while a Syncing status written by a previous process is still
\* persisted, the scheduler has evaluated no tick and no run is in flight.
C4_ResetBeforeFirstTick ==
    hist.stale # {} => ( sched.ticks = 0 /\ runs = {} )

\* C4 witness: after a crash in the middle of a run and a restart, the reset
\* has cleared the stale status and the scheduler has not been started yet.
C4_Witness ==
    /\ main.pc = "setup"
    /\ main.resetChanged # {}
    /\ hist.stale = {}
    /\ sched.pc = "none"

\* the tick branch is left: the loop goes back to select!
TickEnds == sched.pc = "between" /\ sched'.pc = "select"

\* due as the claim defines it, at the tick in progress: never run, or
\* now - last_run >= interval (a platform already run in this tick was due)
DueInTick(p) ==
    IF p \in Scheduled
    THEN p \in sched.ran
            \/ Due(sched.last_run[p], sched.now, IntervalSecs(sched.settings, p))
    ELSE TRUE

\* C5: on every tick, every platform of the ten that is enabled in the
\* snapshot and due has been run when the tick ends.
C5_EveryEnabledDuePlatformRuns ==
    [][ TickEnds =>
          \A p \in Platform :
              ( p \in sched.settings.enabled /\ DueInTick(p) ) => p \in sched.ran
      ]_vars

\* C6 as stated: the scheduler starts a run only for a platform enabled in
\* the snapshot and due, and (settings never change in this specification)
\* any two scheduler-started runs of a platform are an interval apart.
C6_StartsAnIntervalApart ==
    [][ \A p \in Scheduled :
          SchedStartsRun(p) =>
              /\ p \in sched.settings.enabled
              /\ Due(sched.last_run[p], sched.now, IntervalSecs(sched.settings, p))
              /\ hist.everStart[p] # None =>
                    clock - hist.everStart[p][1] >= IntervalSecs(sched.settings, p)
      ]_vars

\* C6 amended: the scheduler starts a run only for a platform enabled in the
\* snapshot and due, and two scheduler-started runs of a platform in the same
\* process are an interval apart.
C6_StartsAnIntervalApartInProcess ==
    [][ \A p \in Scheduled :
          SchedStartsRun(p) =>
              /\ p \in sched.settings.enabled
              /\ Due(sched.last_run[p], sched.now, IntervalSecs(sched.settings, p))
              /\ sched.last_run[p] # None =>
                    clock - hist.everStart[p][1] >= IntervalSecs(sched.settings, p)
      ]_vars

\* C6 witness: a second scheduler-started run of a platform in one process,
\* with a non-zero interval, is in flight.
C6_Witness ==
    \E r \in SchedulerRuns :
        /\ sched.last_run[r.platform] # None
        /\ IntervalSecs(sched.settings, r.platform) > 0

\* C7: at no instant are two scheduler-started runs in flight, and while one
\* is in flight the loop waits for it.
C7_OneSchedulerRunAtATime ==
    /\ Cardinality(SchedulerRuns) <= 1
    /\ \A r \in SchedulerRuns :
          sched.pc = "await" /\ SchedOrder[sched.idx] = r.platform

\* C7 witness: a scheduler-started run is in flight while a later platform
\* of the same tick is enabled and due.
C7_Witness ==
    /\ SchedulerRuns # {}
    /\ sched.pc = "await"
    /\ sched.idx < Len(SchedOrder)
    /\ NextDueIdx(sched, sched.idx + 1) # 0

\* the first tick of a process is taken in this step
FirstTickTaken ==
    sched.pc = "select" /\ sched.ticks = 0 /\ sched'.pc = "between"

\* C8: at the first tick after a process start every enabled platform of the
\* scheduler is due, whatever is persisted for it.
C8_FirstTickAllDue ==
    [][ FirstTickTaken =>
          \A i \in 1..Len(SchedOrder) :
              SchedOrder[i] \in sched'.settings.enabled => SchedRuns(sched', i)
      ]_vars

\* C8 witness: in the first tick of a process the scheduler runs a platform
\* whose persisted record holds a last_sync of an earlier run.
C8_Witness ==
    /\ sched.ticks = 1
    /\ \E r \in SchedulerRuns :
          /\ sched.last_run[r.platform] = None
          /\ store[r.platform].last_sync # None
          /\ store[r.platform].status = "Syncing"

\* C9: once the shutdown signal has been sent the scheduler starts no run.
C9_NoStartAfterCancel ==
    [][ shutdown.sent => \A r \in runs' \ runs : r.owner # 0 ]_vars

\* C10: when the loop waits at select! with the shutdown signal and a tick
\* both ready, the loop exits and the tick is not processed.
C10_CancelBeforeTick ==
    [][ ( sched.pc = "select" /\ shutdown.sent /\ TickReady /\ sched' # sched ) =>
            sched'.pc \in { "stopped", "none" }
      ]_vars

\* C10 witness: the loop has stopped on the shutdown signal while a tick was ready.
C10_Witness ==
    /\ sched.pc = "stopped"
    /\ sched.cancelledWithTick

\* the scheduler loop is left in this step (by the shutdown branch or with
\* the process)
LoopStops ==
    /\ sched.pc \notin { "none", "stopped" }
    /\ sched'.pc \in { "none", "stopped" }

\* C11: a scheduler-started run that was in flight when the shutdown signal
\* was sent is not aborted: it leaves the runs in flight only with a final
\* status written, and the loop does not stop while it is in flight.
C11_CancelDoesNotAbortRun ==
    [][ \A p \in hist.atCancel :
          LET r == [ owner |-> 0, platform |-> p ] IN
              /\ ( r \in runs /\ r \notin runs' ) => store'[p].status \in Terminal
              /\ LoopStops => r \notin runs
      ]_vars

\* C12: a tick after the first decides with the settings of the latest update
\* the listener of the scheduler was called with in this process (with those
\* the scheduler was started with when there was none): its snapshot is that
\* value and
\* every run it starts is enabled and due by it; the update itself leaves the
\* loop where it is and every last_run as it was.
C12_NextTickUsesUpdate ==
    [][ /\ ( sched.pc = "select" /\ sched'.pc = "between" /\ sched.ticks >= 1 ) =>
              sched'.settings = IF hist.saved # None THEN hist.saved[1]
                                ELSE schedSettings
        /\ \A p \in Scheduled :
              SchedStartsRun(p) =>
                  /\ p \in sched.settings.enabled
                  /\ Due(sched.last_run[p], sched.now, IntervalSecs(sched.settings, p))
        /\ ( hist'.saved # hist.saved /\ main'.pc = "up" ) => sched' = sched
      ]_vars

\* run_<platform>_sync writes the final status of the run in this step
RunEndsNow == job.pc = "returned" /\ job'.pc = "idle"

\* the HTTP statuses that tell a missing or expired authorization
AuthStatuses == { "401", "403" }

\* C13: the final status of a run is Success when run_sync succeeded,
\* NeedsAuth when it failed on an authorization answer (HTTP 401 or 403),
\* Error when it failed otherwise.
C13_FinalStatusClassified ==
    [][ RunEndsNow =>
          LET status == store'[job.platform].status IN
              /\ job.result.ok => status = "Success"
              /\ ( ~job.result.ok /\ job.http \in AuthStatuses ) => status = "NeedsAuth"
              /\ ( ~job.result.ok /\ job.http \notin AuthStatuses ) => status = "Error"
      ]_vars

\* the last Push of the run was refused
LastPushFailed ==
    job.pushes # << >> /\ ~job.pushes[Len(job.pushes)].ok

\* C14: when a Push is refused with an authorization failure, the run ends
\* with status NeedsAuth, the error of the run recorded, and the persisted
\* manifest as it was.
C14_PushAuthFailureNeedsAuth ==
    [][ ( RunEndsNow /\ LastPushFailed /\ job.http \in AuthStatuses ) =>
          /\ store'[job.platform].status = "NeedsAuth"
          /\ store'[job.platform].error = Some(job.result.msg)
          /\ manifestStore' = manifestStore
      ]_vars

\* C15: when the Push of batch k fails in an Apple Books run, the persisted
\* manifest afterwards holds the new fingerprint of every book of the
\* batches before k, holds for every book of the batches from k on what it
\* held before the run, and the status is Error.
C15_PartialManifestOnPushFailure ==
    [][ ( RunEndsNow /\ job.platform = "AppleBooks" /\ LastPushFailed ) =>
          LET after == load_apple_books_manifest(manifestStore')
              pushed == (job.k - 1) * APPLE_BOOKS_BATCH_SIZE
          IN  /\ store'["AppleBooks"].status = "Error"
              /\ \A i \in 1..Len(job.subset) :
                    LET book == job.subset[i] IN
                        IF i <= pushed
                        THEN ManifestGet(after, book.asset_id) =
                                Some(BookManifestEntry(book.annot_count,
                                                       book.reading_progress))
                        ELSE ManifestGet(after, book.asset_id) =
                                ManifestGet(job.manifest, book.asset_id)
      ]_vars

\* C16: the Push calls of a run are those of batches 1, 2, ... in that
\* order, each batch once; only the last of them can have failed, and after
\* a failed Push run_sync has returned.
C16_PushesInOrderStopAtFailure ==
    /\ \A i \in 1..Len(job.pushes) :
          /\ job.pushes[i].batch = i
          /\ i < Len(job.pushes) => job.pushes[i].ok
    /\ Len(job.pushes) <= NumChunks(job.subset, BatchSize(job.platform))
    /\ LastPushFailed => job.pc \in { "returned", "idle" }

\* C16 witness: a run of three batches has returned after the Push of its
\* second batch failed.
C16_Witness ==
    /\ job.pc = "returned"
    /\ NumChunks(job.subset, BatchSize(job.platform)) = 3
    /\ Len(job.pushes) = 2
    /\ job.pushes[1].ok
    /\ ~job.pushes[2].ok

\* the items the adapter of the run returned (of a WeChat Read shelf, the
\* entries that carry a bookId)
AdapterItems ==
    IF job.platform = "WechatRead" THEN book_ids(job.items) ELSE job.items

\* no fetched item of the run is in the changed (filtered) subset
NothingChanged ==
    IF job.platform = "AppleBooks"
    THEN \A i \in 1..Len(job.items) : ~BookChanged(job.manifest, job.items[i])
    ELSE \A i \in 1..Len(AdapterItems) :
            AdapterItems[i] \notin { job.subset[n] : n \in 1..Len(job.subset) }

\* no call of the run failed: no request to the backend or to the source,
\* and no read of a local database or file
NoCallFailed == job.http = "" /\ job.local = ""

\* the run was given a server_url and, where its source needs them, cookies
Configured ==
    /\ job.server_url # ""
    /\ job.platform = "WechatRead" => job.credentials

\* C17: a configured run in which no call failed and change detection found
\* nothing issues no Push, returns Ok(0), and ends with status Success and
\* last_sync set to the instant of the final write.
C17_EmptyDiffIsSuccess ==
    [][ ( RunEndsNow /\ Configured /\ NoCallFailed /\ NothingChanged ) =>
          /\ job.pushes = << >>
          /\ job.result.ok
          /\ job.result.count = 0
          /\ store'[job.platform].status = "Success"
          /\ store'[job.platform].last_sync = Some(clock)
      ]_vars

\* C17 witness: an Apple Books run over a library whose books are all in the
\* manifest unchanged has ended, later than instant 0, with Success and count 0.
C17_Witness ==
    /\ job.pc = "idle"
    /\ job.platform = "AppleBooks"
    /\ job.items # << >>
    /\ job.manifest # EmptyManifest
    /\ job.subset = << >>
    /\ job.http = ""
    /\ job.pushes = << >>
    /\ store["AppleBooks"].status = "Success"
    /\ store["AppleBooks"].count = 0
    /\ clock > 0
    /\ store["AppleBooks"].last_sync = Some(clock)

\* the run found the source never synced: an empty manifest (Apple Books),
\* no watermark (bookmarks, Kindle)
NeverSynced ==
    IF job.platform = "AppleBooks"
    THEN job.manifest = EmptyManifest
    ELSE job.last_sync_ts = None

\* one Push carrying all n items, Ok(n), Success, last_sync set to now
OnePushOfAll(n) ==
    /\ Len(job.pushes) = 1
    /\ job.pushes[1].size = n
    /\ job.pushes[1].ok
    /\ job.result.ok
    /\ job.result.count = n
    /\ store'[job.platform].status = "Success"
    /\ store'[job.platform].count = n
    /\ store'[job.platform].last_sync = Some(clock)

Timestamps(p, item) ==
    IF p = "Kindle"
    THEN { ParsedTimestamp(item.clips[i].added_at)[1] :
              i \in { n \in 1..Len(item.clips) :
                         ParsedTimestamp(item.clips[n].added_at) # None } }
    ELSE IF ParsedTimestamp(item.added_at) = None
         THEN {}
         ELSE { ParsedTimestamp(item.added_at)[1] }

\* the run of a source that filters its items by the watermark (bookmarks,
\* Kindle) has fetched its items and filtered them
TimestampFiltered ==
    /\ job.platform \in MarkPlatforms
    /\ job.items # << >>
    /\ job.local = ""
    /\ job.pc \in { "push", "returned", "idle" }

\* C19: with no watermark every fetched item is in the filtered subset; with
\* the watermark T the subset holds exactly the items with a timestamp
\* greater than T and the items with no timestamp, in the order fetched.
C19_TimestampFilter ==
    TimestampFiltered =>
        job.subset =
            SelectSeq(job.items,
                      LAMBDA item :
                          \/ job.last_sync_ts = None
                          \/ Timestamps(job.platform, item) = {}
                          \/ \E t \in Timestamps(job.platform, item) :
                                t > job.last_sync_ts[1])

\* the Apple Books run has read its books and diffed them against the manifest
FingerprintDiffed ==
    /\ job.platform = "AppleBooks"
    /\ job.items # << >>
    /\ job.pc \in { "push", "returned", "idle" }
    /\ job.local = ""
    /\ ~( job.http # "" /\ job.pushes = << >> )

\* the progress values a and b (in units of 1/ProgressUnit) are within 0.005
WithinTolerance(a, b) ==
    /\ ( a - b ) * 1000 <= 5 * ProgressUnit
    /\ ( b - a ) * 1000 <= 5 * ProgressUnit

\* C20: the changed subset of an Apple Books run holds exactly the books
\* whose key is not in the manifest, or whose annotation count is not the
\* stored one, or whose progress is further than 0.005 from the stored one;
\* a book with the stored count and a progress within 0.005 is never in it.
C20_FingerprintDiff ==
    FingerprintDiffed =>
        /\ job.subset =
              SelectSeq(job.items,
                        LAMBDA book :
                            \/ book.asset_id \notin DOMAIN job.manifest
                            \/ job.manifest[book.asset_id].annotation_count
                                  # book.annot_count
                            \/ ~WithinTolerance(job.manifest[book.asset_id].reading_progress,
                                                book.reading_progress))
        /\ \A i \in 1..Len(job.subset) :
              LET book == job.subset[i] IN
                  ~( /\ book.asset_id \in DOMAIN job.manifest
                     /\ job.manifest[book.asset_id].annotation_count = book.annot_count
                     /\ WithinTolerance(job.manifest[book.asset_id].reading_progress,
                                        book.reading_progress) )

\* C20 witness: a diff that leaves out a book whose progress moved, but by
\* no more than the tolerance, and keeps a book that is new to the manifest.
C20_Witness ==
    /\ FingerprintDiffed
    /\ job.subset # << >>
    /\ \E i \in 1..Len(job.items) :
          LET book == job.items[i] IN
              /\ book.asset_id \in DOMAIN job.manifest
              /\ job.manifest[book.asset_id].reading_progress # book.reading_progress
              /\ \A n \in 1..Len(job.subset) : job.subset[n] # book
    /\ \E n \in 1..Len(job.subset) :
          job.subset[n].asset_id \notin DOMAIN job.manifest

-----------------------------------------------------------------------------
(* C21 .. C30 *)

\* the items of a sequence, as a set
Range(seq) == { seq[i] : i \in 1..Len(seq) }

Reverse(seq) == [ i \in 1..Len(seq) |-> seq[Len(seq) + 1 - i] ]

\* the same items in other orders: every permutation of a short list, the
\* reversal and the rotation by one of a long one
Reorderings(seq) ==
    IF Len(seq) <= MaxPermuted
    THEN { [ i \in 1..Len(seq) |-> seq[f[i]] ] : f \in Permutations(1..Len(seq)) }
    ELSE { seq, Reverse(seq), Append(Tail(seq), Head(seq)) }

\* C21: for the manifest and the books of an Apple Books run, the changed
\* subset of every reordering of the books holds the same books as the
\* changed subset the run computed.
C21_DiffOrderIndependent ==
    FingerprintDiffed =>
        \A books \in Reorderings(job.items) :
            Range(changed_books(job.manifest, books)) = Range(job.subset)

\* C21 witness: a diff over three books of which some, but not all, changed.
C21_Witness ==
    /\ FingerprintDiffed
    /\ Len(job.items) = 3
    /\ job.subset # << >>
    /\ Len(job.subset) < Len(job.items)
    /\ ~BookChanged(job.manifest, job.items[1])

\* run_sync has returned Ok (the run is about to write, or has written, Success)
RunSucceeded == job.pc \in { "returned", "idle" } /\ job.result.ok

\* the items the first n Push calls of the run carried, in order
RECURSIVE PushedItems(_)
PushedItems(n) ==
    IF n = 0 THEN << >> ELSE PushedItems(n - 1) \o job.pushes[n].items

\* the item of the subset a pushed item stands for (WeChat Read pushes an
\* ebook made from the book_id)
SubsetItem(p, pushed) == IF p = "WechatRead" THEN pushed.external_id ELSE pushed

\* C22: no Push carries more than the batch size of its source, and on a run
\* that succeeded the payloads of its Push calls, put end to end, are the
\* filtered subset: every item of it once, and nothing else.
C22_BatchesPartitionSubset ==
    /\ \A i \in 1..Len(job.pushes) :
          Len(job.pushes[i].items) <= BatchSize(job.platform)
    /\ RunSucceeded =>
          LET pushed == PushedItems(Len(job.pushes)) IN
              [ i \in 1..Len(pushed) |-> SubsetItem(job.platform, pushed[i]) ]
                  = job.subset

\* C22 witness: a run of three batches, the last of them not full, has
\* succeeded.
C22_Witness ==
    /\ RunSucceeded
    /\ Len(job.pushes) = 3
    /\ Len(job.pushes[1].items) = BatchSize(job.platform)
    /\ Len(job.pushes[3].items) < BatchSize(job.platform)
    /\ Len(job.pushes[3].items) >= 1

\* the Status call of the run was answered with an error
StatusFailed == job.status_http \in { "401", "500" }

\* every fetched item is in the subset (WeChat Read: every book of the shelf
\* that has a bookId, and each Push carries every annotation of its books)
EveryItemIncluded ==
    IF job.platform = "WechatRead"
    THEN /\ job.subset = book_ids(job.items)
         /\ \A i \in 1..Len(job.pushes) :
               job.pushes[i].items =
                   [ n \in 1..Len(job.pushes[i].items) |->
                       [ external_id |-> job.pushes[i].items[n].external_id,
                         annotations |->
                             book_info(job.items,
                                       job.pushes[i].items[n].external_id)[1].marks ] ]
    ELSE job.subset = job.items

\* C23: a run whose Status call was answered with an error does not fail by
\* it: it goes on with no watermark and every fetched item in its subset,
\* and can fail only by a later Push.
C23_StatusFailureTolerated ==
    StatusFailed =>
        /\ job.last_sync_ts = None
        /\ job.pc \in { "push", "returned", "idle" }
        /\ EveryItemIncluded
        /\ ( ~job.result.ok /\ job.pc \in { "returned", "idle" } ) => LastPushFailed

\* run_sync returned an error after an HTTP failure that is no authorization
\* answer
TransportFailed == ~job.result.ok /\ job.http = "500"

\* C24: a run that failed on a transport error ends with status Error; the
\* call that failed is the last call the run made; and a tick that begins
\* with the failure recorded and the platform enabled runs the platform.
C24_RetriedOnNextTick ==
    [][ /\ ( RunEndsNow /\ TransportFailed ) =>
              /\ store'[job.platform].status = "Error"
              /\ job.log[Len(job.log)] \in { "fetch", "setup", "status", "push" }
        /\ ( /\ TickEnds
             /\ TransportFailed
             /\ job.pc = "idle"
             /\ job.platform \in sched.settings.enabled ) =>
              job.platform \in sched.ran
      ]_vars

\* the calls a run can make: the fetch of the adapter and the three backend calls
Calls == { "fetch", "setup", "status", "push" }

\* the run was started with an empty server_url, or without the cookies its
\* source requires
ConfigMissing ==
    /\ job.log # << >>
    /\ \/ job.server_url = ""
       \/ job.platform = "WechatRead" /\ ~job.credentials

\* C25: a run started with an empty server_url, or without the credentials
\* its source requires, has returned an error without any fetch, Setup,
\* Status or Push.
C25_ConfigFailsFast ==
    ConfigMissing =>
        /\ job.pc \in { "returned", "idle" }
        /\ ~job.result.ok
        /\ \A i \in 1..Len(job.log) : job.log[i] \notin Calls

\* C25 witness: a WeChat Read run with a server_url but without cookies has
\* ended with status Error, having done nothing between the two status writes.
C25_Witness ==
    /\ job.pc = "idle"
    /\ job.platform = "WechatRead"
    /\ job.server_url # ""
    /\ ~job.credentials
    /\ job.log = << "syncing", "final" >>
    /\ store["WechatRead"].status = "Error"
    /\ store["WechatRead"].error = Some(MsgWechatNoCredentials)

\* the Apple Books run found no manifest document, or one that does not parse
ManifestUnusable ==
    /\ job.platform = "AppleBooks"
    /\ job.log # << >>
    /\ job.doc \in { "missing", "corrupt" }

\* C26: an Apple Books run that finds its manifest document missing or
\* corrupt works with an empty manifest: every book read is in the changed
\* subset, and the run fails only if a backend call fails, a read of the
\* Apple Books databases fails or the configuration is missing.
C26_BadManifestIsEmpty ==
    ManifestUnusable =>
        /\ job.manifest = EmptyManifest
        /\ FingerprintDiffed => job.subset = job.items
        /\ ( job.pc \in { "returned", "idle" } /\ ~job.result.ok ) =>
              ( job.http # "" \/ job.local # "" \/ ConfigMissing )

\* C26 witness: a run that found a corrupt document, left by an earlier run
\* and damaged since, has pushed all the books it read and has saved a
\* manifest again.
C26_Witness ==
    /\ job.pc = "idle"
    /\ job.platform = "AppleBooks"
    /\ job.doc = "corrupt"
    /\ job.result.ok
    /\ job.items # << >>
    /\ job.result.count = Len(job.items)
    /\ manifestStore.kind = "ok"
    /\ store["AppleBooks"].status = "Success"

\* C27: the SyncResult a run returns has success = true exactly when the
\* status the run wrote last is Success; when run_sync returned an error it
\* has success = false, items_synced = 0 and the text of the error as message;
\* and the scheduler loop that waited for a failed run goes on to the next
\* platform.  The same holds of the SyncResult of a Douban run, for every
\* result its run_sync can return.
C27_OutcomeTellsFinalStatus ==
    [][ /\ RunEndsNow =>
              LET o == job'.outcome IN
                  /\ o.platform = job.platform
                  /\ o.success <=> ( store'[job.platform].status = "Success" )
                  /\ ~job.result.ok =>
                        /\ ~o.success
                        /\ o.items_synced = 0
                        /\ o.message = << job.result.msg >>
                  /\ ( ~job.result.ok /\ job.owner = 0 ) =>
                        /\ sched.pc = "await"
                        /\ sched'.pc = "between"
                        /\ sched'.idx = sched.idx + 1
        /\ \A res \in RunSyncResults("Douban") :
              LET o == SyncResult("Douban", res) IN
                  /\ o.success <=>
                        ( FinalWrite(store, "Douban", res, clock)["Douban"].status
                              = "Success" )
                  /\ ~res.ok =>
                        /\ ~o.success
                        /\ o.items_synced = 0
                        /\ o.message = << res.msg >>
      ]_vars

\* C27 witness: a run of the scheduler failed on its second Push, after a
\* first batch was accepted; it returned success = false with
\* items_synced = 0, and the loop has gone on to wait for the next tick.
C27_Witness ==
    /\ job.pc = "idle"
    /\ job.owner = 0
    /\ ~job.result.ok
    /\ job.total_synced > 0
    /\ ~job.outcome.success
    /\ job.outcome.items_synced = 0
    /\ job.outcome.message = << PushFailedMsg(job.platform) >>
    /\ sched.pc = "select"

\* C28: every step that changes the persisted sync_state document leaves, as
\* the last event emitted, a sync-status-changed event that carries the new
\* document.
C28_EveryMutationEmitted ==
    [][ /\ store' # store =>
              \E r \in runs : SetsNow(r) /\ UpdAfter(r.owner).state = store'
        /\ \A r \in runs :
              ( UpdOf(r.owner).pc = "emit" /\ UpdAfter(r.owner).pc # "emit"
                  /\ main'.pc = "up" ) =>
                  hist'.event = Some(UpdOf(r.owner).state)
      ]_vars

\* the positions of an entry in the log of the run
Positions(log, entry) == { i \in 1..Len(log) : log[i] = entry }

\* C29: no step of a run that is fetching or waiting for Setup, Status or
\* Push changes the manifest document; a run saves the manifest at most
\* once, after its last Push.
C29_ManifestSavedOnceAfterLoop ==
    [][ /\ job.pc \in Calls => manifestStore' = manifestStore
        /\ RunEndsNow =>
              LET saves == Positions(job'.log, "manifest") IN
                  /\ Cardinality(saves) <= 1
                  /\ \A i \in saves, j \in Positions(job'.log, "push") : j < i
                  /\ manifestStore' # manifestStore => saves # {}
      ]_vars

\* C29 witness: an Apple Books run whose two Push calls were accepted has
\* ended and has saved, once, a manifest that differs from the one it loaded.
C29_Witness ==
    /\ job.pc = "idle"
    /\ job.platform = "AppleBooks"
    /\ Len(job.pushes) >= 2
    /\ job.result.ok
    /\ Cardinality(Positions(job.log, "manifest")) = 1
    /\ manifestStore.kind = "ok"
    /\ manifestStore.entries = job.updated_manifest
    /\ job.updated_manifest # job.manifest

\* C30: while a run is fetching, is waiting for Setup, Status or Push, or has
\* returned from run_sync, the persisted status of its platform is Syncing;
\* the write of Syncing is the first thing the run did, before every call.
C30_SyncingBeforeAnyCall ==
    ( job.pc \in Calls \cup { "returned" } ) =>
        /\ store[job.platform].status = "Syncing"
        /\ job.log[1] = "syncing"
        /\ \A i \in 1..Len(job.log) : job.log[i] \in Calls => i > 1

\* C30 witness: an Apple Books run started with an empty server_url, after an
\* earlier run had failed the same way, has returned its error without a
\* call, and the persisted status is Syncing again.
C30_Witness ==
    /\ job.pc = "returned"
    /\ job.platform = "AppleBooks"
    /\ job.server_url = ""
    /\ job.log = << "syncing" >>
    /\ ~job.result.ok
    /\ store["AppleBooks"].status = "Syncing"
    /\ store["AppleBooks"].error = Some(MsgNotConfigured)

\* C31: in the log of a run every Status and every Push comes after a Setup
\* of the same run, and every Push of the run carried the source id that the
\* Setup of the run returned.
C31_SetupFirstAndItsIdPushed ==
    /\ \A i \in Positions(job.log, "status") \cup Positions(job.log, "push") :
          \E s \in Positions(job.log, "setup") : s < i
    /\ Cardinality(Positions(job.log, "setup")) <= 1
    /\ \A i \in 1..Len(job.pushes) :
          /\ job.source_id # None
          /\ job.pushes[i].source_id = job.source_id[1]

\* C31 witness: a run whose Setup returned the second source id has ended
\* in Success with two Push calls accepted under that id.
C31_Witness ==
    /\ job.pc = "idle"
    /\ job.source_id = Some("source-2")
    /\ Len(job.pushes) = 2
    /\ job.pushes[2].ok
    /\ job.pushes[2].source_id = "source-2"
    /\ store[job.platform].status = "Success"

\* C32: a step that changes last_sync or count of a platform is the final
\* write of a run of that platform that ended in Success, and leaves its
\* error cleared; the final write of a run that ended in Error or NeedsAuth,
\* and the write that begins a run, leave last_sync and count of the platform
\* of the run as they were.
C32_StampOnlyOnSuccess ==
    [][ \A p \in Platform :
          /\ ( store'[p].last_sync # store[p].last_sync
                  \/ store'[p].count # store[p].count ) =>
                /\ \E r \in InFlight(p) : FinalSetNow(r) /\ UpdOf(r.owner).res.ok
                /\ store'[p].status = "Success"
                /\ store'[p].error = None
          /\ \A r \in InFlight(p) :
                ( SetsNow(r)
                    /\ ( UpdOf(r.owner).at = "start" \/ ~UpdOf(r.owner).res.ok ) ) =>
                    /\ store'[p].last_sync = store[p].last_sync
                    /\ store'[p].count = store[p].count
      ]_vars

\* no update of the document is between its read and its write
NoUpdateInProgress == \A r \in runs : r.pc \notin { "start", "end" }

\* C33: when no update is between its read and its write, the document holds,
\* for every platform, the record that the last completed update of that
\* platform wrote.
C33_NoUpdateLost ==
    NoUpdateInProgress =>
        \A p \in Platform :
            hist.wrote[p] # None => store[p] = hist.wrote[p][1]

\* C34: for every platform whose persisted Syncing is not one left by an
\* earlier process and not yet reset, the persisted status is Syncing exactly
\* when a run of the platform is in flight.
C34_SyncingIffInFlight ==
    \A p \in Platform :
        p \notin hist.stale =>
            ( store[p].status = "Syncing" <=> RunningOf(p) # {} )

\* C35: no step removes an entry from the persisted manifest, and every entry
\* of the persisted manifest is the fingerprint of a book that a Push which
\* the backend accepted carried (the manifest was empty before the runs).
C35_ManifestSound ==
    [][ /\ DOMAIN manifestStore.entries \subseteq DOMAIN manifestStore'.entries
        /\ \A id \in DOMAIN manifestStore'.entries :
              [ asset_id |-> id, entry |-> manifestStore'.entries[id] ] \in hist'.acked
      ]_vars

\* the book differs from what the persisted manifest holds for its key: no
\* entry, another annotation count, or a progress further than 0.005 away
ChangedSincePersisted(book) ==
    LET entries == load_apple_books_manifest(manifestStore) IN
        \/ book.asset_id \notin DOMAIN entries
        \/ entries[book.asset_id].annotation_count # book.annot_count
        \/ ~WithinTolerance(entries[book.asset_id].reading_progress,
                            book.reading_progress)

\* the book with this key, as the library was last read, is changed
ChangedKnown(id) ==
    \E i \in 1..Len(job.items) :
        job.items[i].asset_id = id /\ ChangedSincePersisted(job.items[i])

\* the last run has ended in Ok, a Push of it that was accepted carried the
\* book with this key, and the persisted manifest holds what was pushed
PushedAndSaved(id) ==
    /\ job.pc = "idle"
    /\ job.result.ok
    /\ \E n \in 1..Len(job.pushes) :
          /\ job.pushes[n].ok
          /\ \E i \in 1..Len(job.pushes[n].items) :
                LET book == job.pushes[n].items[i] IN
                    /\ book.asset_id = id
                    /\ ManifestGet(load_apple_books_manifest(manifestStore), id) =
                          Some(BookManifestEntry(book.annot_count, book.reading_progress))

\* the keys followed: the book that is read on, its neighbour, and the last
\* book of the long library
TrackedIds == { 1, 2, MaxItems }

\* C36: in every Apple Books run that has filtered its books, each book that
\* is changed relative to the persisted manifest is in the changed subset
\* (whatever failed in the runs before); and when runs keep being started and
\* Setup and Push are accepted again and again, a changed book is in the end
\* carried by an accepted Push of a run that ends in Ok and saves it.
C36_ChangedNeverSkipped ==
    /\ [] ( ( FingerprintDiffed /\ job.pc \in { "push", "returned" } ) =>
              \A i \in 1..Len(job.items) :
                  ChangedSincePersisted(job.items[i]) =>
                      job.items[i] \in Range(job.subset) )
    /\ \A id \in TrackedIds : ChangedKnown(id) ~> PushedAndSaved(id)

\* a run after a success and a later failure pushes the book that was read on
\* since the success
C36_Witness ==
    /\ job.pc = "push"
    /\ manifestStore.kind = "ok"
    /\ store["AppleBooks"].error # None
    /\ store["AppleBooks"].last_sync # None
    /\ Book(1, 0, 11) \in Range(job.subset)
    /\ manifestStore.entries[1].reading_progress = 0

\* the run reads its file and filters it in this step
FiltersNow ==
    /\ job.pc = "status"
    /\ job'.pc # "status"
    /\ job'.status_http = "ok"

\* C37: an item that was in the filtered subset of a run and was carried by
\* no accepted Push of it is in the filtered subset of the next run that
\* filters (the file still holds it; the backend has advanced its watermark
\* at each acknowledgement).
C37_UnpushedFilteredAgain ==
    [][ FiltersNow =>
          hist.unpushed \subseteq { job'.subset[i] : i \in 1..Len(job'.subset) }
      ]_vars

\* C38: a run that is started right after a run that ended in Ok, and reads
\* the books that run read, finds no changed book (it never waits for a
\* Push: once it has filtered it has returned Ok with the count 0), issues
\* no Push, and no step of it changes the persisted manifest.
C38_SecondRunPushesNothing ==
    /\ [] ( hist.again =>
              /\ job.subset = << >>
              /\ job.pushes = << >>
              /\ job.pc # "push"
              /\ ( FingerprintDiffed => job.result = OkResult(0) ) )
    /\ [][ hist.again => manifestStore' = manifestStore ]_vars

\* the second run over the long library, all of whose chunks the run before
\* pushed, has ended
C38_Witness ==
    /\ hist.again
    /\ job.pc = "idle"
    /\ Positions(job.log, "setup") # {}
    /\ job.http = ""
    /\ Len(job.items) > 2 * APPLE_BOOKS_BATCH_SIZE
    /\ DOMAIN manifestStore.entries = 1..Len(job.items)
    /\ store["AppleBooks"].status = "Success"

\* the store.set of the final update of run r, which failed, is this step
FailsNow(r) == FinalSetNow(r) /\ ~UpdOf(r.owner).res.ok

\* the caller that awaits the run r is at its next if-statement after the step
CallerGoesOn(r) ==
    IF r.owner = 0
    THEN ( sched.pc = "await" /\ SchedOrder[sched.idx] = r.platform ) =>
            ( sched'.pc = "between" /\ sched'.idx = sched.idx + 1 )
    ELSE cmds[r.owner].kind = "sync_now" =>
            /\ cmds'[r.owner].kind = "sync_now"
            /\ cmds'[r.owner].pc = "between"
            /\ cmds'[r.owner].idx = cmds[r.owner].idx + 1

\* sync_now k goes on from between two if-statements in this step
SyncNowGoesOn(k) ==
    /\ cmds[k].kind = "sync_now"
    /\ cmds[k].pc = "between"
    /\ cmds'[k] # cmds[k]
    /\ main'.pc = "up"

\* C39: the final write of a run that ended in Error or NeedsAuth changes the
\* record of no other platform, and when the run returns its caller goes on
\* to its next if-statement; when a tick ends, every scheduled platform that
\* was enabled and due has been run in it; a sync_now that goes on calls the
\* run of the next platform enabled in its settings, and returns only when
\* there is none.
C39_FailureIsolated ==
    [][ /\ \A r \in runs :
              /\ FailsNow(r) =>
                    \A q \in Platform \ { r.platform } : store'[q] = store[q]
              /\ ( ReturnsNow(r) /\ ~UpdOf(r.owner).res.ok ) => CallerGoesOn(r)
        /\ TickEnds =>
              \A p \in Scheduled :
                  ( p \in sched.settings.enabled /\ DueInTick(p) ) => p \in sched.ran
        /\ \A k \in 1..MaxManual :
              SyncNowGoesOn(k) =>
                  LET later == { j \in cmds[k].idx..Len(SyncNowOrder) :
                                    SyncNowOrder[j] \in cmds[k].settings.enabled }
                  IN  IF later = {}
                      THEN cmds'[k].kind = "idle"
                      ELSE \E j \in later :
                              /\ \A i \in later : j <= i
                              /\ [ owner |-> k, platform |-> SyncNowOrder[j] ] \in runs'
                              /\ cmds'[k].upd.state[SyncNowOrder[j]].status = "Syncing"
      ]_vars

\* a tick is in progress
InTick(s) == s.pc \in { "between", "await" }

\* C40: while a run of the scheduler is in flight the scheduler holds no
\* guard of the shared settings, and an update that has arrived (a task of
\* the listener waiting to write the lock) can write it; the write leaves the
\* scheduler, its snapshot and every last_run as they were; the snapshot of a
\* tick is what the shared settings held when the tick read them and stays
\* the same to the end of the tick; each if-statement of the tick decides by
\* the snapshot: the run started next is that of the first platform from
\* there on that is enabled and due by the snapshot, and the tick ends when
\* there is none.
C40_SnapshotPerTick ==
    /\ [] ( SchedulerRuns # {} => ~ReadGuardHeld(sched) )
    /\ [] ( ( SchedulerRuns # {} /\ pending # EmptyBag ) =>
              \A s \in BagToSet(pending) : ENABLED ApplySettings(s) )
    /\ [][ /\ ( ~InTick(sched) /\ InTick(sched') ) => sched'.settings = schedSettings
           /\ ( InTick(sched) /\ InTick(sched') ) => sched'.settings = sched.settings
           /\ ( schedSettings' # schedSettings /\ main'.pc = "up" ) => sched' = sched
           /\ ( sched.pc = "between" /\ sched' # sched /\ main'.pc = "up" ) =>
                 LET later == { j \in sched.idx..Len(SchedOrder) :
                                   /\ SchedOrder[j] \in sched.settings.enabled
                                   /\ Due(sched.last_run[SchedOrder[j]], sched.now,
                                          IntervalSecs(sched.settings, SchedOrder[j])) }
                 IN  IF later = {}
                     THEN sched'.pc = "select"
                     ELSE \E j \in later :
                             /\ \A i \in later : j <= i
                             /\ SchedStartsRun(SchedOrder[j])
         ]_vars

\* an update that disables WeChat Read reached the shared settings while the
\* Apple Books run of the tick was in flight, and the tick, whose snapshot
\* has WeChat Read enabled, is running WeChat Read
C40_Witness ==
    /\ sched.pc = "await"
    /\ sched.settings = SettingsB
    /\ schedSettings = SettingsA
    /\ hist.appliedDuring = { "AppleBooks" }
    /\ "AppleBooks" \in sched.ran
    /\ [ owner |-> 0, platform |-> "WechatRead" ] \in runs
====
